---- MODULE Spec2Model ----
(***************************************************************************)
(* A model of cinema_tui: the schedule acquisition worker                  *)
(* (src/app/ritz.rs), the App state and its operations (src/app/app.rs)    *)
(* and the foreground loop that polls the worker's channel and handles     *)
(* key events (src/main.rs).                                               *)
(*                                                                         *)
(* Text is modelled as a sequence of tokens: one-character strings, and    *)
(* the program's own string literals ("/now-showing/", "Failed to fetch ") *)
(* as single tokens.  A timestamp is a number of minutes; a calendar day   *)
(* is 1440 of them and day number d falls on weekday d % 7 (0 = Monday).   *)
(***************************************************************************)
EXTENDS Integers, Sequences, FiniteSets, TLC

\* ------------------------------------------------------------------------
\* Bounds of the exploration
\* ------------------------------------------------------------------------
MaxClock ==
  1

MaxSearchLen ==
  1

\* the longest list of showtimes of a title in the Schedules functions are
\* called with on their own
MaxTimes ==
  2

\* the most listing rows of a page, and the most anchors of a root page, the
\* parser and the scraper are called with on their own
MaxRows ==
  2

\* the most detail lookup threads running at a time
MaxLookups ==
  2

\* ------------------------------------------------------------------------
\* Program constants
\* ------------------------------------------------------------------------
MinutesPerDay ==
  1440

DaysPerWeek ==
  7

\* Option<T>: None and Some(x)
None ==
  [some |-> FALSE]

Some(x) ==
  [some |-> TRUE, val |-> x]

\* ------------------------------------------------------------------------
\* Text helpers
\* ------------------------------------------------------------------------
Digits ==
  {"0", "1", "2", "3", "4", "5", "6", "7", "8", "9"}

DigitVal(c) ==
  CASE c = "0" -> 0 [] c = "1" -> 1 [] c = "2" -> 2 [] c = "3" -> 3
    [] c = "4" -> 4 [] c = "5" -> 5 [] c = "6" -> 6 [] c = "7" -> 7
    [] c = "8" -> 8 [] c = "9" -> 9

IsSpace(c) ==
  c = " "

RECURSIVE TrimStart(_)
TrimStart(s) ==
  IF s # <<>> /\ IsSpace(Head(s)) THEN TrimStart(Tail(s)) ELSE s

RECURSIVE TrimEnd(_)
TrimEnd(s) ==
  IF s # <<>> /\ IsSpace(s[Len(s)]) THEN TrimEnd(SubSeq(s, 1, Len(s) - 1)) ELSE s

Trim(s) ==
  TrimEnd(TrimStart(s))

ToLowerChar(c) ==
  CASE c = "A" -> "a" [] c = "B" -> "b" [] c = "F" -> "f" [] c = "M" -> "m"
    [] c = "S" -> "s" [] c = "T" -> "t" [] c = "W" -> "w"
    [] OTHER -> c

ToLower(s) ==
  [i \in 1..Len(s) |-> ToLowerChar(s[i])]

Contains(s, p) ==
  \E i \in 1..(Len(s) + 1) : i + Len(p) - 1 <= Len(s) /\ SubSeq(s, i, i + Len(p) - 1) = p

\* ------------------------------------------------------------------------
\* utils.rs: get_offset_from_string, NaiveTime::parse_from_str(s, "%-I:%M %P")
\* ------------------------------------------------------------------------
\* Result<T, E>: Err and Ok(x); a call that panics is modelled like Err
Err ==
  [ok |-> FALSE]

Ok(x) ==
  [ok |-> TRUE, val |-> x]

\* chrono's scan::number(s, 1, max): the longest prefix of at most max digits
ScanNumber(s, max) ==
  LET n == IF Len(s) >= 2 /\ max >= 2 /\ s[1] \in Digits /\ s[2] \in Digits THEN 2
           ELSE IF Len(s) >= 1 /\ s[1] \in Digits THEN 1
           ELSE 0
  IN  IF n = 0 THEN [ok |-> FALSE, val |-> 0, rest |-> s]
      ELSE IF n = 1 THEN [ok |-> TRUE, val |-> DigitVal(s[1]), rest |-> Tail(s)]
      ELSE [ok |-> TRUE, val |-> 10 * DigitVal(s[1]) + DigitVal(s[2]), rest |-> Tail(Tail(s))]

\* the %P item: two letters, matched without regard to case; 0 = am, 1 = pm
ScanAmPm(s) ==
  IF Len(s) < 2 THEN [ok |-> FALSE, val |-> 0, rest |-> s]
  ELSE IF ToLowerChar(s[1]) = "a" /\ ToLowerChar(s[2]) = "m"
         THEN [ok |-> TRUE, val |-> 0, rest |-> Tail(Tail(s))]
  ELSE IF ToLowerChar(s[1]) = "p" /\ ToLowerChar(s[2]) = "m"
         THEN [ok |-> TRUE, val |-> 1, rest |-> Tail(Tail(s))]
  ELSE [ok |-> FALSE, val |-> 0, rest |-> s]

\* a parse that takes the hour 12 for twelve hours past midnight or noon
ParseClock_twelve_is_twelve(time_string) ==
  LET h  == ScanNumber(TrimStart(time_string), 2)
      c  == h.rest
      m  == ScanNumber(TrimStart(Tail(c)), 2)
      ap == ScanAmPm(TrimStart(m.rest))
  IN  IF ~h.ok \/ h.val < 1 \/ h.val > 12 THEN Err
      ELSE IF c = <<>> \/ Head(c) # ":" THEN Err
      ELSE IF ~m.ok \/ m.val > 59 THEN Err
      ELSE IF ~ap.ok \/ ap.rest # <<>> THEN Err
      ELSE Ok((h.val + 12 * ap.val) * 60 + m.val)

\* NaiveTime::parse_from_str(time_string, "%-I:%M %P"), the time as minutes
\* from midnight
ParseClock(time_string) ==
  LET h  == ScanNumber(TrimStart(time_string), 2)
      c  == h.rest
      m  == ScanNumber(TrimStart(Tail(c)), 2)
      ap == ScanAmPm(TrimStart(m.rest))
  IN  IF ~h.ok \/ h.val < 1 \/ h.val > 12 THEN Err
      ELSE IF c = <<>> \/ Head(c) # ":" THEN Err
      ELSE IF ~m.ok \/ m.val > 59 THEN Err
      ELSE IF ~ap.ok \/ ap.rest # <<>> THEN Err
      ELSE Ok(((h.val % 12) + 12 * ap.val) * 60 + m.val)

Panic ==
  Err

\* get_offset_from_string unwraps the parse: a parse error is a panic
get_offset_from_string(time_string) ==
  IF ParseClock(time_string).ok THEN Ok(ParseClock(time_string).val) ELSE Panic

\* ------------------------------------------------------------------------
\* Dates: chrono DateTime<Local> as minutes, NaiveDate as a day number
\* ------------------------------------------------------------------------
date_naive(t) ==
  t \div MinutesPerDay

Midnight(t) ==
  date_naive(t) * MinutesPerDay

\* Weekday::num_days_from_monday of the day of t
weekday(t) ==
  date_naive(t) % DaysPerWeek

\* ------------------------------------------------------------------------
\* Day labels
\* ------------------------------------------------------------------------
L_today ==
  <<"t", "o", "d", "a", "y">>

L_tomorrow ==
  <<"t", "o", "m", "o", "r", "r", "o", "w">>

L_all ==
  <<"a", "l", "l">>

L_later ==
  <<"l", "a", "t", "e", "r">>

WeekdayNames ==
  << <<"m", "o", "n", "d", "a", "y">>,
     <<"t", "u", "e", "s", "d", "a", "y">>,
     <<"w", "e", "d", "n", "e", "s", "d", "a", "y">>,
     <<"t", "h", "u", "r", "s", "d", "a", "y">>,
     <<"f", "r", "i", "d", "a", "y">>,
     <<"s", "a", "t", "u", "r", "d", "a", "y">>,
     <<"s", "u", "n", "d", "a", "y">> >>

\* calculate_date_from_tag taking today's weekday for the one of next week
calculate_date_from_tag_next_week(tag, now) ==
  LET today == Midnight(now)
      lower == ToLower(tag)
  IN  IF tag = L_today THEN today
      ELSE IF tag = L_tomorrow THEN today + MinutesPerDay
      ELSE IF ~(\E n \in 1..DaysPerWeek : WeekdayNames[n] = lower) THEN today
      ELSE LET target_num  == (CHOOSE n \in 1..DaysPerWeek : WeekdayNames[n] = lower) - 1
               current_num == weekday(today)
               days_until  == IF target_num > current_num THEN target_num - current_num
                              ELSE DaysPerWeek - current_num + target_num
           IN  today + days_until * MinutesPerDay

\* calculate_date_from_tag taking an unknown label for tomorrow
calculate_date_from_tag_unknown_is_tomorrow(tag, now) ==
  LET today == Midnight(now)
      lower == ToLower(tag)
  IN  IF tag = L_today THEN today
      ELSE IF tag = L_tomorrow THEN today + MinutesPerDay
      ELSE IF ~(\E n \in 1..DaysPerWeek : WeekdayNames[n] = lower) THEN today + MinutesPerDay
      ELSE LET target_num  == (CHOOSE n \in 1..DaysPerWeek : WeekdayNames[n] = lower) - 1
               current_num == weekday(today)
               days_until  == IF current_num = target_num THEN 0
                              ELSE IF target_num > current_num THEN target_num - current_num
                              ELSE DaysPerWeek - current_num + target_num
           IN  today + days_until * MinutesPerDay

\* ritz.rs: calculate_date_from_tag, with Local::now() passed in as now
calculate_date_from_tag(tag, now) ==
  LET today == Midnight(now)
      lower == ToLower(tag)
  IN  IF tag = L_today THEN today
      ELSE IF tag = L_tomorrow THEN today + MinutesPerDay
      ELSE IF ~(\E n \in 1..DaysPerWeek : WeekdayNames[n] = lower) THEN today
      ELSE LET target_num  == (CHOOSE n \in 1..DaysPerWeek : WeekdayNames[n] = lower) - 1
               current_num == weekday(today)
               days_until  == IF current_num = target_num THEN 0
                              ELSE IF target_num > current_num THEN target_num - current_num
                              ELSE DaysPerWeek - current_num + target_num
           IN  today + days_until * MinutesPerDay

\* ------------------------------------------------------------------------
\* The pages the network can answer with
\* ------------------------------------------------------------------------
NowShowing ==
  "/now-showing/"

Href(label) ==
  <<NowShowing>> \o label

\* root listings pages: the anchors of the document, in document order
RootPages ==
  { << [slide |-> TRUE,  href |-> Some(Href(L_today))],
       [slide |-> TRUE,  href |-> Some(Href(L_all))],
       [slide |-> FALSE, href |-> Some(Href(L_later))],
       [slide |-> TRUE,  href |-> Some(Href(L_tomorrow))] >>,
    << [slide |-> TRUE,  href |-> Some(Href(<<>>))],
       [slide |-> TRUE,  href |-> Some(<<"https://host">> \o Href(L_today))],
       [slide |-> TRUE,  href |-> None] >> }

T_A ==
  <<"A">>

T_b ==
  <<"b">>

S_200pm ==
  <<"2", ":", "0", "0", " ", "p", "m">>

S_715pm ==
  <<"7", ":", "1", "5", " ", "p", "m">>

S_1200am ==
  <<"1", "2", ":", "0", "0", " ", "a", "m">>

S_bad ==
  <<"2", "5", ":", "0", "0", " ", "p", "m">>

\* day listing pages: the li.Stack rows of the document, each with the text
\* of its first span.Title a (None when it has none) and of its span.Time's
DayPages ==
  { << [title |-> Some(<<" ">> \o T_A \o <<" ">>), times |-> <<S_200pm, <<" ">> \o S_715pm>>],
       [title |-> None, times |-> <<S_1200am>>],
       [title |-> Some(T_b), times |-> <<S_1200am, <<" ">>>>],
       [title |-> Some(<<" ">>), times |-> <<S_200pm>>],
       [title |-> Some(<<"c">>), times |-> << <<" ">> >>],
       [title |-> Some(T_A), times |-> <<S_1200am>>] >>,
    << [title |-> Some(T_b), times |-> <<S_715pm>>],
       [title |-> Some(T_A), times |-> <<S_bad>>],
       [title |-> Some(T_b), times |-> <<S_200pm>>] >> }

\* the causes a reqwest::Error can carry
Causes ==
  {<<"timeout">>}

\* ------------------------------------------------------------------------
\* ritz.rs: the Listing Parser and the Endpoint Discoverer
\* ------------------------------------------------------------------------
RECURSIVE SelectSeq2(_, _)
\* drop the empty strings of a sequence of trimmed strings
SelectSeq2(s, empty) ==
  IF s = <<>> THEN <<>>
  ELSE IF Head(s) = empty THEN SelectSeq2(Tail(s), empty)
  ELSE <<Head(s)>> \o SelectSeq2(Tail(s), empty)

RECURSIVE parse_showtimes_from_html_needs_times(_)
\* a parser that discards the rows without a time
parse_showtimes_from_html_needs_times(html) ==
  IF html = <<>> THEN <<>>
  ELSE LET el == Head(html)
           rest == parse_showtimes_from_html_needs_times(Tail(html))
       IN  IF ~el.title.some THEN rest
           ELSE LET movie_name == Trim(el.title.val)
                    times == SelectSeq2([i \in 1..Len(el.times) |-> Trim(el.times[i])], <<>>)
                IN  IF movie_name = <<>> \/ times = <<>> THEN rest
                    ELSE << <<movie_name, times>> >> \o rest

RECURSIVE parse_showtimes_from_html(_)
parse_showtimes_from_html(html) ==
  IF html = <<>> THEN <<>>
  ELSE LET el == Head(html)
           rest == parse_showtimes_from_html(Tail(html))
       IN  IF ~el.title.some THEN rest
           ELSE LET movie_name == Trim(el.title.val)
                    times == SelectSeq2([i \in 1..Len(el.times) |-> Trim(el.times[i])], <<>>)
                IN  IF movie_name = <<>> THEN rest
                    ELSE << <<movie_name, times>> >> \o rest

RECURSIVE Endpoints_keeps_all(_)
\* a scraper that filters the empty label only
Endpoints_keeps_all(document) ==
  IF document = <<>> THEN <<>>
  ELSE LET el == Head(document)
           rest == Endpoints_keeps_all(Tail(document))
           selected == el.slide /\ el.href.some
                       /\ \E i \in 1..Len(el.href.val) : el.href.val[i] = NowShowing
       IN  IF ~selected THEN rest
           ELSE IF Head(el.href.val) # NowShowing THEN rest
           ELSE LET endpoint == Tail(el.href.val)
                IN  IF endpoint = <<>> THEN rest
                    ELSE <<endpoint>> \o rest

RECURSIVE Endpoints(_)
\* scrape_available_day_endpoints on a fetched root page
Endpoints(document) ==
  IF document = <<>> THEN <<>>
  ELSE LET el == Head(document)
           rest == Endpoints(Tail(document))
           selected == el.slide /\ el.href.some
                       /\ \E i \in 1..Len(el.href.val) : el.href.val[i] = NowShowing
       IN  IF ~selected THEN rest
           ELSE IF Head(el.href.val) # NowShowing THEN rest
           ELSE LET endpoint == Tail(el.href.val)
                IN  IF endpoint = L_all \/ endpoint = <<>> THEN rest
                    ELSE <<endpoint>> \o rest

\* get_dates_for_week_result on a fetched root page
get_dates_for_week_result(document, now) ==
  LET endpoints == Endpoints(document)
  IN  [i \in 1..Len(endpoints) |->
         [date |-> calculate_date_from_tag(endpoints[i], now), label |-> endpoints[i]]]

\* ------------------------------------------------------------------------
\* MovieTimes = HashMap<String, Vec<DateTime<Local>>>
\* ------------------------------------------------------------------------
EmptyMap ==
  <<>>

\* an insert that replaces the list of the title
Push_replaces(movie_times, name, datetime) ==
  [n \in DOMAIN movie_times \cup {name} |->
     IF n = name THEN <<datetime>> ELSE movie_times[n]]

\* movie_times.entry(name).or_insert(Vec::new()).push(datetime)
Push(movie_times, name, datetime) ==
  [n \in DOMAIN movie_times \cup {name} |->
     IF n = name
       THEN (IF n \in DOMAIN movie_times THEN Append(movie_times[n], datetime) ELSE <<datetime>>)
       ELSE movie_times[n]]

RECURSIVE AddTimes(_, _, _, _)
\* the inner loop of get_ritz_movies_threaded over one row's times
AddTimes(movie_times, name, times, date) ==
  IF times = <<>> THEN Ok(movie_times)
  ELSE LET offset == get_offset_from_string(Head(times))
       IN  IF ~offset.ok THEN Panic
           ELSE AddTimes(Push(movie_times, name, date + offset.val), name, Tail(times), date)

RECURSIVE AddShowtimes(_, _, _)
\* the outer loop of get_ritz_movies_threaded over one day's rows
AddShowtimes(movie_times, showtimes, date) ==
  IF showtimes = <<>> THEN Ok(movie_times)
  ELSE LET added == AddTimes(movie_times, Head(showtimes)[1], Head(showtimes)[2], date)
       IN  IF ~added.ok THEN Panic
           ELSE AddShowtimes(added.val, Tail(showtimes), date)


\* ------------------------------------------------------------------------
\* app.rs: the Schedule View
\* ------------------------------------------------------------------------
RECURSIVE SortSet(_)
\* Vec::sort of the elements of a set of timestamps
SortSet(S) ==
  IF S = {} THEN <<>>
  ELSE LET m == CHOOSE x \in S : \A y \in S : x <= y
       IN  <<m>> \o SortSet(S \ {m})

\* update_available_dates collecting the showtimes themselves, not their days
AvailableDates_of_showtimes(movie_times) ==
  SortSet({movie_times[n][i] : <<n, i>> \in
             UNION {{<<m, j>> : j \in 1..Len(movie_times[m])} : m \in DOMAIN movie_times}})

\* App::update_available_dates: the midnights of all showtimes, sorted
AvailableDates(movie_times) ==
  SortSet({Midnight(movie_times[n][i]) : <<n, i>> \in
             UNION {{<<m, j>> : j \in 1..Len(movie_times[m])} : m \in DOMAIN movie_times}})

Alphabet ==
  <<"a", "b", "c", "d", "e", "f", "g", "h", "i", "j", "k", "l", "m",
    "n", "o", "p", "q", "r", "s", "t", "u", "v", "w", "x", "y", "z">>

CharRank(c) ==
  IF \E i \in 1..Len(Alphabet) : Alphabet[i] = c
    THEN CHOOSE i \in 1..Len(Alphabet) : Alphabet[i] = c
    ELSE 0

RECURSIVE StrLeq(_, _)
\* String::cmp(a, b) # Greater
StrLeq(a, b) ==
  IF a = <<>> THEN TRUE
  ELSE IF b = <<>> THEN FALSE
  ELSE IF CharRank(Head(a)) # CharRank(Head(b)) THEN CharRank(Head(a)) < CharRank(Head(b))
  ELSE StrLeq(Tail(a), Tail(b))

\* a filter that keeps the times of every day
TimesOn_every_day(times, selected_date) ==
  times

\* the times of a sequence that fall on the calendar day of selected_date
RECURSIVE TimesOn(_, _)
TimesOn(times, selected_date) ==
  IF times = <<>> THEN <<>>
  ELSE IF date_naive(Head(times)) = date_naive(selected_date)
         THEN <<Head(times)>> \o TimesOn(Tail(times), selected_date)
  ELSE TimesOn(Tail(times), selected_date)

\* App::get_filtered_movies: every vector the call can return.  The entries
\* come out of the HashMap in any order and are then sorted (stably) by
\* lower-cased name.
get_filtered_movies(a) ==
  IF a.selected_date_index >= Len(a.available_dates) THEN {<<>>}
  ELSE LET selected_date == a.available_dates[a.selected_date_index + 1]
           names == {n \in DOMAIN a.ritz_movie_times :
                       TimesOn(a.ritz_movie_times[n], selected_date) # <<>>}
           k == Cardinality(names)
       IN  { [i \in 1..k |-> <<f[i], TimesOn(a.ritz_movie_times[f[i]], selected_date)>>] :
               f \in {g \in [1..k -> names] :
                        /\ \A i, j \in 1..k : i # j => g[i] # g[j]
                        /\ \A i, j \in 1..k : i < j => StrLeq(ToLower(g[i]), ToLower(g[j]))} }

\* the number of movies get_filtered_movies returns
movie_count(a) ==
  Len(CHOOSE v \in get_filtered_movies(a) : TRUE)

\* ------------------------------------------------------------------------
\* app.rs: the Cache Store.  The file holds a JSON document in which every
\* timestamp is written as a date and a time of day.
\* ------------------------------------------------------------------------
\* a serializer that writes the date of a timestamp only
EncodeTime_date_only(t) ==
  [date |-> t \div MinutesPerDay, time |-> 0]

EncodeTime(t) ==
  [date |-> t \div MinutesPerDay, time |-> t % MinutesPerDay]

DecodeTime(e) ==
  e.date * MinutesPerDay + e.time

\* serde_json::to_string_pretty(&CachedMovieData)
Serialize(movie_times, last_updated) ==
  [valid |-> TRUE,
   movie_times |-> [n \in DOMAIN movie_times |->
                      [i \in 1..Len(movie_times[n]) |-> EncodeTime(movie_times[n][i])]],
   last_updated |-> EncodeTime(last_updated)]

\* serde_json::from_str::<CachedMovieData>
Deserialize(contents) ==
  [movie_times |-> [n \in DOMAIN contents.movie_times |->
                      [i \in 1..Len(contents.movie_times[n]) |->
                         DecodeTime(contents.movie_times[n][i])]],
   last_updated |-> DecodeTime(contents.last_updated)]

\* a file that serde_json cannot decode
Corrupt ==
  [valid |-> FALSE]

\* update_available_dates without its last line
update_available_dates_keeps_index(a) ==
  [a EXCEPT !.available_dates = AvailableDates(a.ritz_movie_times)]

\* App::update_available_dates
update_available_dates(a) ==
  [a EXCEPT !.available_dates = AvailableDates(a.ritz_movie_times),
            !.selected_date_index = 0]

\* load_cache taking a file it cannot use for an empty cache written now
load_cache_stamps(a, file) ==
  IF file.some /\ file.val.valid
    THEN update_available_dates(
           [a EXCEPT !.ritz_movie_times = Deserialize(file.val).movie_times,
                     !.last_updated = Some(Deserialize(file.val).last_updated)])
    ELSE [a EXCEPT !.last_updated = Some(0)]

\* App::load_cache applied to the App a
load_cache(a, file) ==
  IF file.some /\ file.val.valid
    THEN update_available_dates(
           [a EXCEPT !.ritz_movie_times = Deserialize(file.val).movie_times,
                     !.last_updated = Some(Deserialize(file.val).last_updated)])
    ELSE a

\* ------------------------------------------------------------------------
\* The state
\* ------------------------------------------------------------------------
VARIABLES
  app,          \* the App struct
  fg_pc,        \* where run_app's loop is: "movies", "detail", "poster", "event"
  running,      \* FALSE once run_app has returned
  now,          \* Local::now()
  cache_file,   \* the contents of movie_cache.json, None when there is no file
  workers,      \* the running get_ritz_movies_threaded threads, by channel
  chan,         \* the messages queued on the channel app.receiver reads
  detail_task,  \* the running detail lookup threads: the title each looks up, by channel
  asked,        \* the title of the latest call of fetch_movie_detail that started a lookup
  detail_chan,  \* the messages queued on the channel app.detail_receiver reads
  poster_task,  \* the running poster download thread that can still be heard
  poster_chan,  \* the messages queued on the channel app.poster_receiver reads
  sent,         \* every message sent so far on the channel of the latest run
  net,          \* the requests and the sleeps of the worker of the latest run
  recd,         \* the messages of the latest run the loop has received
  run_end,      \* how the worker of the latest run ended
  pre_run,      \* what fetch_movies found when it started the latest run
  startup,      \* the Schedule App::new produced
  last_save,    \* what the last poll of the schedule channel had save_cache write
  last_key,     \* the key press handled in the last iteration, None when none was
  call          \* the last call of a function made on its own: its arguments and result

vars ==
  <<app, fg_pc, running, now, cache_file, workers, chan, detail_task, asked, detail_chan,
    poster_task, poster_chan, sent, net, recd, run_end, pre_run, startup, last_save,
    last_key, call>>

StartTime ==
  4 * MinutesPerDay + 600

ClockStep ==
  300

\* the cache files a start can find: none, an undecodable one, a snapshot
InitialCacheFiles ==
  { None, Some(Corrupt),
    Some(Serialize([n \in {T_A} |-> <<3 * MinutesPerDay + 840, StartTime + 240>>],
                   StartTime - 60)) }

ApiKeys ==
  { None, Some(<<"k">>) }

\* the fields App::new assigns before it loads the cache
NewApp(key) ==
  [ritz_movie_times |-> EmptyMap,
   current_screen |-> "Main",
   searching |-> FALSE,
   search_term |-> <<>>,
   loading_movies |-> FALSE,
   loading_messages |-> <<>>,
   receiver |-> None,
   selected_movie_index |-> 0,
   list_state |-> Some(0),
   selected_date_index |-> 0,
   available_dates |-> <<>>,
   last_updated |-> None,
   selected_movie_detail |-> None,
   loading_movie_detail |-> FALSE,
   movie_detail_error |-> None,
   omdb_api_key |-> key,
   detail_receiver |-> None,
   poster_protocol |-> None,
   loading_poster |-> FALSE,
   poster_receiver |-> None]

Snapshot(c) ==
  [chan |-> c,
   after |-> IF recd = <<>> THEN "none" ELSE recd[Len(recd)].type,
   ritz_movie_times |-> app.ritz_movie_times,
   available_dates |-> app.available_dates,
   last_updated |-> app.last_updated,
   cache_file |-> cache_file]

NoSave ==
  [called |-> FALSE]

\* no function has been called on its own
NoCall ==
  [fn |-> "none"]

Init ==
  /\ cache_file \in InitialCacheFiles
  /\ \E key \in ApiKeys : app = load_cache(NewApp(key), cache_file)
  /\ fg_pc = "movies"
  /\ running = TRUE
  /\ now = StartTime
  /\ workers = <<>>
  /\ chan = <<>>
  /\ detail_task = <<>>
  /\ asked = None
  /\ detail_chan = <<>>
  /\ poster_task = None
  /\ poster_chan = <<>>
  /\ sent = <<>>
  /\ net = <<>>
  /\ recd = <<>>
  /\ run_end = "idle"
  /\ pre_run = Snapshot(0)
  /\ startup = app.ritz_movie_times
  /\ last_save = NoSave
  /\ last_key = None
  /\ call = NoCall

\* ------------------------------------------------------------------------
\* ritz.rs: get_ritz_movies_threaded, one thread per call of fetch_movies
\* ------------------------------------------------------------------------
Progress(text) ==
  [type |-> "Progress", text |-> text]

Complete(movie_times) ==
  [type |-> "Complete", movie_times |-> movie_times]

Error(text) ==
  [type |-> "Error", text |-> text]

NewWorker ==
  [pc |-> "discover", dates |-> <<>>, idx |-> 1, movie_times |-> EmptyMap,
   sleep_secs |-> None]

Without(f, w) ==
  [c \in DOMAIN f \ {w} |-> f[c]]

\* sender.send(msg) by the worker of channel w: queued when the receiver of
\* that channel is still held, dropped otherwise
Send(w, msg) ==
  /\ chan' = IF app.receiver = Some(w) THEN Append(chan, msg) ELSE chan
  /\ sent' = IF pre_run.chan = w THEN Append(sent, msg) ELSE sent

\* the thread of channel w returns (or unwinds)
Exit(w, how) ==
  /\ workers' = Without(workers, w)
  /\ run_end' = IF pre_run.chan = w THEN how ELSE run_end

\* what the thread of channel w did on the network: the request of the
\* root page, the request of a day's page, a sleep
Log(w, events) ==
  net' = IF pre_run.chan = w THEN net \o events ELSE net

RootRequest(result) ==
  [kind |-> "root", result |-> result]

DayRequest(label, date, result) ==
  [kind |-> "day", label |-> label, date |-> date, result |-> result]

Sleep ==
  [kind |-> "sleep"]

\* line 172: rng.gen_range(1000..=2000), in milliseconds
MinSleep ==
  1000

MaxSleep ==
  2000

\* durations drawn from a range that starts at zero
SleepChoices_from_zero ==
  {0, MaxSleep}

\* the durations the exploration draws: the two ends of the range
SleepChoices ==
  {MinSleep, MaxSleep}

WorkerFrame ==
  UNCHANGED <<app, fg_pc, running, now, cache_file, detail_task, asked, detail_chan,
              poster_task, poster_chan, recd, pre_run, startup, last_save, last_key, call>>

\* a discovery that reports a root page without day labels as an error
Discover_needs_labels(w) ==
  /\ running
  /\ w \in DOMAIN workers
  /\ workers[w].pc = "discover"
  /\ \/ \E cause \in Causes :
          /\ Send(w, Error(<<"Failed to get dates: ">> \o cause))
          /\ Exit(w, "discovery_error")
          /\ Log(w, <<RootRequest(Err)>>)
     \/ \E document \in RootPages :
          /\ IF Endpoints(document) = <<>>
               THEN /\ Send(w, Error(<<"Failed to get dates: ">>))
                    /\ Exit(w, "discovery_error")
               ELSE /\ workers' = [workers EXCEPT
                                     ![w].dates = get_dates_for_week_result(document, now),
                                     ![w].pc = "loop"]
                    /\ UNCHANGED <<chan, sent, run_end>>
          /\ Log(w, <<RootRequest(Ok(document))>>)
  /\ WorkerFrame

\* lines 149-155: discovery
Discover(w) ==
  /\ running
  /\ w \in DOMAIN workers
  /\ workers[w].pc = "discover"
  /\ \/ \E cause \in Causes :
          /\ Send(w, Error(<<"Failed to get dates: ">> \o cause))
          /\ Exit(w, "discovery_error")
          /\ Log(w, <<RootRequest(Err)>>)
     \/ \E document \in RootPages :
          /\ workers' = [workers EXCEPT ![w].dates = get_dates_for_week_result(document, now),
                                        ![w].pc = "loop"]
          /\ Log(w, <<RootRequest(Ok(document))>>)
          /\ UNCHANGED <<chan, sent, run_end>>
  /\ WorkerFrame

\* the head of the loop without its Progress message
NextDate_silent(w) ==
  /\ running
  /\ w \in DOMAIN workers
  /\ workers[w].pc = "loop"
  /\ IF workers[w].idx <= Len(workers[w].dates)
       THEN /\ workers' = [workers EXCEPT ![w].pc = "fetch"]
            /\ UNCHANGED <<chan, sent, run_end>>
       ELSE /\ Send(w, Complete(workers[w].movie_times))
            /\ Exit(w, "complete")
  /\ UNCHANGED net
  /\ WorkerFrame

\* lines 157-159 and 190: the head of the loop over dates
NextDate(w) ==
  /\ running
  /\ w \in DOMAIN workers
  /\ workers[w].pc = "loop"
  /\ IF workers[w].idx <= Len(workers[w].dates)
       THEN /\ Send(w, Progress(<<"Getting movie times for ">>
                                  \o workers[w].dates[workers[w].idx].label))
            /\ workers' = [workers EXCEPT ![w].pc = "fetch"]
            /\ UNCHANGED run_end
       ELSE /\ Send(w, Complete(workers[w].movie_times))
            /\ Exit(w, "complete")
  /\ UNCHANGED net
  /\ WorkerFrame

\* FetchDay going on to the next day after a failed fetch
FetchDay_continues(w) ==
  /\ running
  /\ w \in DOMAIN workers
  /\ workers[w].pc = "fetch"
  /\ \/ \E cause \in Causes :
          /\ Send(w, Error(<<"Failed to fetch ">> \o workers[w].dates[workers[w].idx].label
                             \o <<": ">> \o cause))
          /\ workers' = [workers EXCEPT ![w].idx = @ + 1, ![w].pc = "loop"]
          /\ UNCHANGED run_end
          /\ Log(w, <<DayRequest(workers[w].dates[workers[w].idx].label,
                                 workers[w].dates[workers[w].idx].date, Err)>>)
     \/ \E html \in DayPages :
          LET added == AddShowtimes(workers[w].movie_times,
                                    parse_showtimes_from_html(html),
                                    workers[w].dates[workers[w].idx].date)
          IN  /\ IF added.ok
                   THEN /\ \E sleep_secs \in SleepChoices :
                             workers' = [workers EXCEPT ![w].movie_times = added.val,
                                                        ![w].sleep_secs = Some(sleep_secs),
                                                        ![w].idx = @ + 1,
                                                        ![w].pc = "loop"]
                        /\ UNCHANGED run_end
                   ELSE Exit(w, "panic")
              /\ Log(w, <<DayRequest(workers[w].dates[workers[w].idx].label,
                                     workers[w].dates[workers[w].idx].date, Ok(html)),
                          Sleep>>)
              /\ UNCHANGED <<chan, sent>>
  /\ WorkerFrame

\* lines 161-188: the body of the loop after the Progress message: fetch the
\* day's page, sleep, parse the page and add its showtimes
FetchDay(w) ==
  /\ running
  /\ w \in DOMAIN workers
  /\ workers[w].pc = "fetch"
  /\ \/ \E cause \in Causes :
          /\ Send(w, Error(<<"Failed to fetch ">> \o workers[w].dates[workers[w].idx].label
                             \o <<": ">> \o cause))
          /\ Exit(w, "fetch_error")
          /\ Log(w, <<DayRequest(workers[w].dates[workers[w].idx].label,
                                 workers[w].dates[workers[w].idx].date, Err)>>)
     \/ \E html \in DayPages :
          LET added == AddShowtimes(workers[w].movie_times,
                                    parse_showtimes_from_html(html),
                                    workers[w].dates[workers[w].idx].date)
          IN  /\ IF added.ok
                   THEN /\ \E sleep_secs \in SleepChoices :
                             workers' = [workers EXCEPT ![w].movie_times = added.val,
                                                        ![w].sleep_secs = Some(sleep_secs),
                                                        ![w].idx = @ + 1,
                                                        ![w].pc = "loop"]
                        /\ UNCHANGED run_end
                   ELSE Exit(w, "panic")
              /\ Log(w, <<DayRequest(workers[w].dates[workers[w].idx].label,
                                     workers[w].dates[workers[w].idx].date, Ok(html)),
                          Sleep>>)
              /\ UNCHANGED <<chan, sent>>
  /\ WorkerFrame

\* ------------------------------------------------------------------------
\* omd.rs: the detail lookup and the poster download, one thread per call
\* ------------------------------------------------------------------------
N_A ==
  <<"N/A">>

PosterUrl(name) ==
  <<"http://poster/">> \o name

\* what fetch_movie_details can return for a title
DetailResults(name) ==
  { [type |-> "Complete", details |-> [title |-> name, poster |-> PosterUrl(name)]],
    [type |-> "Complete", details |-> [title |-> name, poster |-> N_A]],
    [type |-> "Error", text |-> <<"Movie not found: ">> \o name] }

\* what download_poster can return for a URL
PosterResults(url) ==
  { [type |-> "Complete", protocol |-> [image_of |-> url]],
    [type |-> "Error", text |-> <<"Failed to download poster">>] }

\* app.rs lines 327-336: the lookup thread answers
\* lookup threads that all send on the channel the App reads
DetailLookup_one_channel ==
  /\ running
  /\ \E c \in DOMAIN detail_task :
       /\ \E msg \in DetailResults(detail_task[c]) :
            detail_chan' = IF app.detail_receiver.some
                             THEN Append(detail_chan, msg) ELSE detail_chan
       /\ detail_task' = Without(detail_task, c)
  /\ UNCHANGED <<asked, app, fg_pc, running, now, cache_file, workers, chan, poster_task,
                 poster_chan, sent, net, recd, run_end, pre_run, startup, last_save, last_key,
                 call>>

\* sender.send(msg) of a thread whose receiver the App no longer holds fails
\* and the message is dropped
DetailLookup ==
  /\ running
  /\ \E c \in DOMAIN detail_task :
       /\ \E msg \in DetailResults(detail_task[c]) :
            detail_chan' = IF app.detail_receiver = Some(c)
                             THEN Append(detail_chan, msg) ELSE detail_chan
       /\ detail_task' = Without(detail_task, c)
  /\ UNCHANGED <<asked, app, fg_pc, running, now, cache_file, workers, chan, poster_task,
                 poster_chan, sent, net, recd, run_end, pre_run, startup, last_save, last_key,
                 call>>

\* app.rs lines 348-357: the download thread answers
PosterDownload ==
  /\ running
  /\ poster_task.some
  /\ \E msg \in PosterResults(poster_task.val) : poster_chan' = Append(poster_chan, msg)
  /\ poster_task' = None
  /\ UNCHANGED <<app, fg_pc, running, now, cache_file, workers, chan, detail_task, asked,
                 detail_chan, sent, net, recd, run_end, pre_run, startup, last_save, last_key,
                 call>>

\* time passes
AdvanceClock ==
  /\ running
  /\ now < StartTime + MaxClock * ClockStep
  /\ now' = now + ClockStep
  /\ UNCHANGED <<app, fg_pc, running, cache_file, workers, chan, detail_task, asked, detail_chan,
                 poster_task, poster_chan, sent, net, recd, run_end, pre_run, startup, last_save,
                 last_key, call>>

\* ------------------------------------------------------------------------
\* app.rs: the operations of App the loop calls
\* ------------------------------------------------------------------------
\* a save_cache that leaves a file that exists as it is
save_cache_keeps_file(a, file, write_ok) ==
  IF a.last_updated.some /\ write_ok /\ ~file.some
    THEN Some(Serialize(a.ritz_movie_times, a.last_updated.val))
    ELSE file

\* App::save_cache: the file after the call; fs::write succeeds or not
save_cache(a, file, write_ok) ==
  IF a.last_updated.some /\ write_ok
    THEN Some(Serialize(a.ritz_movie_times, a.last_updated.val))
    ELSE file

\* what save_cache was asked to write
SaveCall(a, write_ok) ==
  IF a.last_updated.some
    THEN [called |-> TRUE, movie_times |-> a.ritz_movie_times,
          last_updated |-> a.last_updated.val, ok |-> write_ok]
    ELSE NoSave

\* next_movie without the wrap to the first movie
next_movie_no_wrap(a) ==
  IF movie_count(a) = 0 THEN a
  ELSE [a EXCEPT !.selected_movie_index = a.selected_movie_index + 1,
                 !.list_state = Some(a.selected_movie_index + 1)]

\* App::next_movie
next_movie(a) ==
  IF movie_count(a) = 0 THEN a
  ELSE [a EXCEPT !.selected_movie_index = (a.selected_movie_index + 1) % movie_count(a),
                 !.list_state = Some((a.selected_movie_index + 1) % movie_count(a))]

\* App::previous_movie
previous_movie(a) ==
  IF movie_count(a) = 0 THEN a
  ELSE LET i == IF a.selected_movie_index = 0 THEN movie_count(a) - 1
                ELSE a.selected_movie_index - 1
       IN  [a EXCEPT !.selected_movie_index = i, !.list_state = Some(i)]

\* App::next_date
next_date(a) ==
  IF a.available_dates = <<>> THEN a
  ELSE [a EXCEPT !.selected_date_index = (a.selected_date_index + 1) % Len(a.available_dates),
                 !.selected_movie_index = 0,
                 !.list_state = Some(0)]

\* App::previous_date
previous_date(a) ==
  IF a.available_dates = <<>> THEN a
  ELSE [a EXCEPT !.selected_date_index = IF a.selected_date_index = 0
                                           THEN Len(a.available_dates) - 1
                                           ELSE a.selected_date_index - 1,
                 !.selected_movie_index = 0,
                 !.list_state = Some(0)]

\* the channel a new run gets: one no running worker and no receiver uses
NewChan ==
  CHOOSE c \in 1..(Cardinality(DOMAIN workers) + 2) :
    /\ c \notin DOMAIN workers
    /\ app.receiver # Some(c)
    /\ \A d \in 1..(c - 1) : d \in DOMAIN workers \/ app.receiver = Some(d)

\* fetch_movies emptying the Schedule when the run starts
fetch_movies_clears ==
  /\ app' = [app EXCEPT !.receiver = Some(NewChan),
                        !.loading_movies = TRUE,
                        !.loading_messages = <<>>,
                        !.ritz_movie_times = EmptyMap,
                        !.available_dates = <<>>]
  /\ chan' = <<>>
  /\ workers' = [c \in DOMAIN workers \cup {NewChan} |->
                   IF c = NewChan THEN NewWorker ELSE workers[c]]
  /\ sent' = <<>>
  /\ net' = <<>>
  /\ recd' = <<>>
  /\ run_end' = "running"
  /\ pre_run' = Snapshot(NewChan)
  /\ UNCHANGED <<detail_task, asked, detail_chan, poster_task, poster_chan>>

\* App::fetch_movies
fetch_movies ==
  /\ app' = [app EXCEPT !.receiver = Some(NewChan),
                        !.loading_movies = TRUE,
                        !.loading_messages = <<>>]
  /\ chan' = <<>>
  /\ workers' = [c \in DOMAIN workers \cup {NewChan} |->
                   IF c = NewChan THEN NewWorker ELSE workers[c]]
  /\ sent' = <<>>
  /\ net' = <<>>
  /\ recd' = <<>>
  /\ run_end' = "running"
  /\ pre_run' = Snapshot(NewChan)
  /\ UNCHANGED <<detail_task, asked, detail_chan, poster_task, poster_chan>>

ApiKeyNotSet ==
  <<"API key not set">>

\* the channel a new lookup gets: one no running lookup and no receiver uses
NewDetailChan ==
  CHOOSE c \in 1..(Cardinality(DOMAIN detail_task) + 2) :
    /\ c \notin DOMAIN detail_task
    /\ app.detail_receiver # Some(c)
    /\ \A d \in 1..(c - 1) : d \in DOMAIN detail_task \/ app.detail_receiver = Some(d)

\* a fetch_movie_detail that opens a channel before it looks at the key
fetch_movie_detail_opens_channel(a, movie_name) ==
  /\ IF ~a.omdb_api_key.some
       THEN /\ app' = [a EXCEPT !.detail_receiver = Some(NewDetailChan),
                                !.movie_detail_error = Some(ApiKeyNotSet),
                                !.loading_movie_detail = FALSE]
            /\ UNCHANGED <<detail_task, asked, detail_chan>>
       ELSE /\ app' = [a EXCEPT !.detail_receiver = Some(NewDetailChan),
                                !.loading_movie_detail = TRUE,
                                !.selected_movie_detail = None,
                                !.movie_detail_error = None]
            /\ detail_task' = [c \in DOMAIN detail_task \cup {NewDetailChan} |->
                                IF c = NewDetailChan THEN movie_name ELSE detail_task[c]]
            /\ asked' = Some(movie_name)
            /\ detail_chan' = <<>>
  /\ UNCHANGED <<chan, workers, sent, net, recd, run_end, pre_run, poster_task, poster_chan>>

\* App::fetch_movie_detail, on the App a
fetch_movie_detail(a, movie_name) ==
  /\ IF ~a.omdb_api_key.some
       THEN /\ app' = [a EXCEPT !.movie_detail_error = Some(ApiKeyNotSet),
                                !.loading_movie_detail = FALSE]
            /\ UNCHANGED <<detail_task, asked, detail_chan>>
       ELSE /\ app' = [a EXCEPT !.detail_receiver = Some(NewDetailChan),
                                !.loading_movie_detail = TRUE,
                                !.selected_movie_detail = None,
                                !.movie_detail_error = None]
            /\ detail_task' = [c \in DOMAIN detail_task \cup {NewDetailChan} |->
                                IF c = NewDetailChan THEN movie_name ELSE detail_task[c]]
            /\ asked' = Some(movie_name)
            /\ detail_chan' = <<>>
  /\ UNCHANGED <<chan, workers, sent, net, recd, run_end, pre_run, poster_task, poster_chan>>

\* ------------------------------------------------------------------------
\* main.rs: run_app.  One iteration draws, polls the three channels in
\* turn and then waits up to 100 ms for an event.
\* ------------------------------------------------------------------------
At(pc) ==
  running /\ fg_pc = pc

PollFrame ==
  UNCHANGED <<running, now, workers, detail_task, asked, sent, net, run_end, pre_run,
              startup, call>>

\* a poll that takes the second queued message before the first when both
\* are Progress
RecvProgress_takes_second ==
  /\ At("movies")
  /\ app.receiver.some /\ chan # <<>> /\ Head(chan).type = "Progress"
  /\ LET k == IF Len(chan) >= 2 /\ chan[2].type = "Progress" THEN 2 ELSE 1
     IN  /\ app' = [app EXCEPT !.loading_messages = Append(@, chan[k].text)]
         /\ chan' = SubSeq(chan, 1, k - 1) \o SubSeq(chan, k + 1, Len(chan))
         /\ recd' = Append(recd, chan[k])
  /\ last_save' = NoSave
  /\ last_key' = None
  /\ fg_pc' = "detail"
  /\ UNCHANGED <<cache_file, detail_chan, poster_task, poster_chan>>
  /\ PollFrame

\* a poll that gives the run up when it finds nothing
RecvNothing_gives_up ==
  /\ At("movies")
  /\ ~app.receiver.some \/ chan = <<>>
  /\ app' = [app EXCEPT !.loading_movies = FALSE, !.receiver = None]
  /\ last_save' = NoSave
  /\ last_key' = None
  /\ fg_pc' = "detail"
  /\ UNCHANGED <<chan, recd, cache_file, detail_chan, poster_task, poster_chan>>
  /\ PollFrame

\* lines 54-56
RecvProgress ==
  /\ At("movies")
  /\ app.receiver.some /\ chan # <<>> /\ Head(chan).type = "Progress"
  /\ app' = [app EXCEPT !.loading_messages = Append(@, Head(chan).text)]
  /\ chan' = Tail(chan)
  /\ recd' = Append(recd, Head(chan))
  /\ last_save' = NoSave
  /\ last_key' = None
  /\ fg_pc' = "detail"
  /\ UNCHANGED <<cache_file, detail_chan, poster_task, poster_chan>>
  /\ PollFrame

\* the Complete arm without its call of save_cache
RecvComplete_without_save ==
  /\ At("movies")
  /\ app.receiver.some /\ chan # <<>> /\ Head(chan).type = "Complete"
  /\ LET a1 == [app EXCEPT !.ritz_movie_times = Head(chan).movie_times,
                           !.last_updated = Some(now)]
         a2 == update_available_dates(a1)
     IN  /\ cache_file' = cache_file
         /\ last_save' = NoSave
         /\ app' = [a2 EXCEPT !.loading_movies = FALSE,
                              !.loading_messages = <<>>,
                              !.receiver = None,
                              !.selected_movie_index = 0,
                              !.list_state = Some(0)]
  /\ chan' = <<>>
  /\ recd' = Append(recd, Head(chan))
  /\ last_key' = None
  /\ fg_pc' = "detail"
  /\ UNCHANGED <<detail_chan, poster_task, poster_chan>>
  /\ PollFrame

\* the Complete arm giving up when the cache cannot be written
RecvComplete_write_must_succeed ==
  /\ At("movies")
  /\ app.receiver.some /\ chan # <<>> /\ Head(chan).type = "Complete"
  /\ \E write_ok \in BOOLEAN :
       LET a1 == [app EXCEPT !.ritz_movie_times = Head(chan).movie_times,
                             !.last_updated = Some(now)]
           a2 == update_available_dates(a1)
       IN  /\ cache_file' = save_cache(a2, cache_file, write_ok)
           /\ last_save' = SaveCall(a2, write_ok)
           /\ app' = IF write_ok
                       THEN [a2 EXCEPT !.loading_movies = FALSE,
                                       !.loading_messages = <<>>,
                                       !.receiver = None,
                                       !.selected_movie_index = 0,
                                       !.list_state = Some(0)]
                       ELSE [app EXCEPT !.loading_messages = Append(@, <<"Error: ", "write">>),
                                        !.loading_movies = FALSE,
                                        !.receiver = None]
  /\ chan' = <<>>
  /\ recd' = Append(recd, Head(chan))
  /\ last_key' = None
  /\ fg_pc' = "detail"
  /\ UNCHANGED <<detail_chan, poster_task, poster_chan>>
  /\ PollFrame

\* the Complete arm without its drop of the receiver
RecvComplete_keeps_receiver ==
  /\ At("movies")
  /\ app.receiver.some /\ chan # <<>> /\ Head(chan).type = "Complete"
  /\ \E write_ok \in BOOLEAN :
       LET a1 == [app EXCEPT !.ritz_movie_times = Head(chan).movie_times,
                             !.last_updated = Some(now)]
           a2 == update_available_dates(a1)
       IN  /\ cache_file' = save_cache(a2, cache_file, write_ok)
           /\ last_save' = SaveCall(a2, write_ok)
           /\ app' = [a2 EXCEPT !.loading_movies = FALSE,
                                !.loading_messages = <<>>,
                                !.selected_movie_index = 0,
                                !.list_state = Some(0)]
  /\ chan' = <<>>
  /\ recd' = Append(recd, Head(chan))
  /\ last_key' = None
  /\ fg_pc' = "detail"
  /\ UNCHANGED <<detail_chan, poster_task, poster_chan>>
  /\ PollFrame

\* the Complete arm closing the movie detail as well
RecvComplete_closes_detail ==
  /\ At("movies")
  /\ app.receiver.some /\ chan # <<>> /\ Head(chan).type = "Complete"
  /\ \E write_ok \in BOOLEAN :
       LET a1 == [app EXCEPT !.ritz_movie_times = Head(chan).movie_times,
                             !.last_updated = Some(now)]
           a2 == update_available_dates(a1)
       IN  /\ cache_file' = save_cache(a2, cache_file, write_ok)
           /\ last_save' = SaveCall(a2, write_ok)
           /\ app' = [a2 EXCEPT !.loading_movies = FALSE,
                                !.loading_messages = <<>>,
                                !.receiver = None,
                                !.selected_movie_detail = None,
                                !.selected_movie_index = 0,
                                !.list_state = Some(0)]
  /\ chan' = <<>>
  /\ recd' = Append(recd, Head(chan))
  /\ last_key' = None
  /\ fg_pc' = "detail"
  /\ UNCHANGED <<detail_chan, poster_task, poster_chan>>
  /\ PollFrame

\* lines 57-67
RecvComplete ==
  /\ At("movies")
  /\ app.receiver.some /\ chan # <<>> /\ Head(chan).type = "Complete"
  /\ \E write_ok \in BOOLEAN :
       LET a1 == [app EXCEPT !.ritz_movie_times = Head(chan).movie_times,
                             !.last_updated = Some(now)]
           a2 == update_available_dates(a1)
       IN  /\ cache_file' = save_cache(a2, cache_file, write_ok)
           /\ last_save' = SaveCall(a2, write_ok)
           /\ app' = [a2 EXCEPT !.loading_movies = FALSE,
                                !.loading_messages = <<>>,
                                !.receiver = None,
                                !.selected_movie_index = 0,
                                !.list_state = Some(0)]
  /\ chan' = <<>>
  /\ recd' = Append(recd, Head(chan))
  /\ last_key' = None
  /\ fg_pc' = "detail"
  /\ UNCHANGED <<detail_chan, poster_task, poster_chan>>
  /\ PollFrame

\* the Error arm installing an empty Schedule
RecvError_clears_schedule ==
  /\ At("movies")
  /\ app.receiver.some /\ chan # <<>> /\ Head(chan).type = "Error"
  /\ app' = [app EXCEPT !.loading_messages = Append(@, <<"Error: ">> \o Head(chan).text),
                        !.ritz_movie_times = EmptyMap,
                        !.loading_movies = FALSE,
                        !.receiver = None]
  /\ chan' = <<>>
  /\ recd' = Append(recd, Head(chan))
  /\ last_save' = NoSave
  /\ last_key' = None
  /\ fg_pc' = "detail"
  /\ UNCHANGED <<cache_file, detail_chan, poster_task, poster_chan>>
  /\ PollFrame

\* the Error arm without its loading_movies = false
RecvError_keeps_loading ==
  /\ At("movies")
  /\ app.receiver.some /\ chan # <<>> /\ Head(chan).type = "Error"
  /\ app' = [app EXCEPT !.loading_messages = Append(@, <<"Error: ">> \o Head(chan).text),
                        !.receiver = None]
  /\ chan' = <<>>
  /\ recd' = Append(recd, Head(chan))
  /\ last_save' = NoSave
  /\ last_key' = None
  /\ fg_pc' = "detail"
  /\ UNCHANGED <<cache_file, detail_chan, poster_task, poster_chan>>
  /\ PollFrame

\* lines 68-72
RecvError ==
  /\ At("movies")
  /\ app.receiver.some /\ chan # <<>> /\ Head(chan).type = "Error"
  /\ app' = [app EXCEPT !.loading_messages = Append(@, <<"Error: ">> \o Head(chan).text),
                        !.loading_movies = FALSE,
                        !.receiver = None]
  /\ chan' = <<>>
  /\ recd' = Append(recd, Head(chan))
  /\ last_save' = NoSave
  /\ last_key' = None
  /\ fg_pc' = "detail"
  /\ UNCHANGED <<cache_file, detail_chan, poster_task, poster_chan>>
  /\ PollFrame

\* lines 52 and 73-75: no receiver, or try_recv finds nothing
RecvNothing ==
  /\ At("movies")
  /\ ~app.receiver.some \/ chan = <<>>
  /\ last_save' = NoSave
  /\ last_key' = None
  /\ fg_pc' = "detail"
  /\ UNCHANGED <<app, chan, recd, cache_file, detail_chan, poster_task, poster_chan>>
  /\ PollFrame

\* App::fetch_poster, on the App a
fetch_poster(a, poster_url) ==
  /\ app' = [a EXCEPT !.poster_receiver = Some("channel"),
                      !.loading_poster = TRUE,
                      !.poster_protocol = None]
  /\ poster_task' = Some(poster_url)
  /\ poster_chan' = <<>>

\* lines 82-93
DetailComplete ==
  /\ At("detail")
  /\ app.detail_receiver.some /\ detail_chan # <<>> /\ Head(detail_chan).type = "Complete"
  /\ LET details == Head(detail_chan).details
         a1 == [app EXCEPT !.selected_movie_detail = Some(details),
                           !.loading_movie_detail = FALSE,
                           !.detail_receiver = None]
     IN  IF details.poster # N_A /\ details.poster # <<>>
           THEN fetch_poster(a1, details.poster)
           ELSE app' = a1 /\ UNCHANGED <<poster_task, poster_chan>>
  /\ detail_chan' = <<>>
  /\ fg_pc' = "poster"
  /\ UNCHANGED <<chan, recd, cache_file, last_save, last_key>>
  /\ PollFrame

\* lines 94-98
DetailError ==
  /\ At("detail")
  /\ app.detail_receiver.some /\ detail_chan # <<>> /\ Head(detail_chan).type = "Error"
  /\ app' = [app EXCEPT !.movie_detail_error = Some(Head(detail_chan).text),
                        !.loading_movie_detail = FALSE,
                        !.detail_receiver = None]
  /\ detail_chan' = <<>>
  /\ fg_pc' = "poster"
  /\ UNCHANGED <<chan, recd, cache_file, last_save, last_key, poster_task, poster_chan>>
  /\ PollFrame

\* lines 80 and 99-101
DetailNothing ==
  /\ At("detail")
  /\ ~app.detail_receiver.some \/ detail_chan = <<>>
  /\ fg_pc' = "poster"
  /\ UNCHANGED <<app, chan, recd, cache_file, last_save, last_key, detail_chan, poster_task,
                 poster_chan>>
  /\ PollFrame

\* lines 108-112
PosterComplete ==
  /\ At("poster")
  /\ app.poster_receiver.some /\ poster_chan # <<>> /\ Head(poster_chan).type = "Complete"
  /\ app' = [app EXCEPT !.poster_protocol = Some(Head(poster_chan).protocol),
                        !.loading_poster = FALSE,
                        !.poster_receiver = None]
  /\ poster_chan' = <<>>
  /\ fg_pc' = "event"
  /\ UNCHANGED <<chan, recd, cache_file, last_save, last_key, detail_chan, poster_task>>
  /\ PollFrame

\* lines 113-117
PosterError ==
  /\ At("poster")
  /\ app.poster_receiver.some /\ poster_chan # <<>> /\ Head(poster_chan).type = "Error"
  /\ app' = [app EXCEPT !.loading_poster = FALSE,
                        !.poster_receiver = None]
  /\ poster_chan' = <<>>
  /\ fg_pc' = "event"
  /\ UNCHANGED <<chan, recd, cache_file, last_save, last_key, detail_chan, poster_task>>
  /\ PollFrame

\* lines 106 and 118-120
PosterNothing ==
  /\ At("poster")
  /\ ~app.poster_receiver.some \/ poster_chan = <<>>
  /\ fg_pc' = "event"
  /\ UNCHANGED <<app, chan, recd, cache_file, last_save, last_key, detail_chan, poster_task,
                 poster_chan>>
  /\ PollFrame

\* ------------------------------------------------------------------------
\* main.rs lines 125-218: the key event of the iteration
\* ------------------------------------------------------------------------
CharKeys ==
  {"q", "g", "m", "j", "k", "l", "h", "b"}

\* the characters typed into the search input
SearchChars ==
  {"g"}

Keys ==
  CharKeys \cup {"Enter", "Esc", "Backspace"}

EventFrame ==
  UNCHANGED <<now, cache_file, startup, last_save, call>>

\* nothing but app changes
OnlyApp ==
  UNCHANGED <<running, chan, workers, sent, net, recd, run_end, pre_run,
              detail_task, asked, detail_chan, poster_task, poster_chan>>

\* return Ok(())
Quit ==
  /\ running' = FALSE
  /\ UNCHANGED <<app, chan, workers, sent, net, recd, run_end, pre_run,
                 detail_task, asked, detail_chan, poster_task, poster_chan>>

\* lines 132-151: the key goes to the search input
SearchInput(key) ==
  /\ app' = CASE key \in CharKeys -> [app EXCEPT !.search_term = Append(@, key)]
              [] key = "Backspace" ->
                   [app EXCEPT !.search_term =
                      IF @ = <<>> THEN <<>> ELSE SubSeq(@, 1, Len(@) - 1)]
              [] key = "Enter" -> [app EXCEPT !.searching = FALSE]
              [] key = "Esc" -> [app EXCEPT !.searching = FALSE, !.search_term = <<>>]
              [] OTHER -> app
  /\ OnlyApp

\* g without the loading_movies test
KeyG_ungated ==
  fetch_movies /\ UNCHANGED running

\* lines 159-163: g on the Main screen
KeyG ==
  IF ~app.loading_movies
    THEN fetch_movies /\ UNCHANGED running
    ELSE UNCHANGED app /\ OnlyApp

\* lines 154-184: a key on the Main screen
MainKey(key) ==
  CASE key = "q" -> Quit
    [] key = "m" -> app' = [app EXCEPT !.searching = TRUE] /\ OnlyApp
    [] key = "g" -> KeyG
    [] key = "Enter" ->
         \E movies \in get_filtered_movies(app) :
           IF app.selected_movie_index < Len(movies)
             THEN /\ fetch_movie_detail([app EXCEPT !.current_screen = "MovieDetail"],
                                        movies[app.selected_movie_index + 1][1])
                  /\ UNCHANGED running
             ELSE UNCHANGED app /\ OnlyApp
    [] key \in {"Down", "j"} -> app' = next_movie(app) /\ OnlyApp
    [] key \in {"Up", "k"} -> app' = previous_movie(app) /\ OnlyApp
    [] key \in {"Right", "l"} -> app' = next_date(app) /\ OnlyApp
    [] key \in {"Left", "h"} -> app' = previous_date(app) /\ OnlyApp
    [] OTHER -> UNCHANGED app /\ OnlyApp

\* lines 193-205: a key on the MovieDetail screen
DetailKey(key) ==
  CASE key = "q" -> Quit
    [] key \in {"Esc", "b"} ->
         /\ app' = [app EXCEPT !.current_screen = "Main",
                               !.selected_movie_detail = None,
                               !.movie_detail_error = None,
                               !.poster_protocol = None,
                               !.loading_poster = FALSE,
                               !.poster_receiver = None]
         /\ poster_task' = None
         /\ poster_chan' = <<>>
         /\ UNCHANGED <<running, chan, workers, sent, net, recd, run_end, pre_run,
                        detail_task, asked, detail_chan>>
    [] OTHER -> UNCHANGED app /\ OnlyApp

\* lines 185-192 and 206-215: the screens Movie, Date and Exiting
OtherKey(key) ==
  CASE key = "q" /\ app.current_screen \in {"Movie", "Date"} -> Quit
    [] key = "y" /\ app.current_screen = "Exiting" -> Quit
    [] key = "n" /\ app.current_screen = "Exiting" ->
         app' = [app EXCEPT !.current_screen = "Main"] /\ OnlyApp
    [] OTHER -> UNCHANGED app /\ OnlyApp

\* lines 125-218: a key press is read and handled
KeyPress(key) ==
  /\ At("event")
  /\ IF app.searching THEN SearchInput(key)
     ELSE IF app.current_screen = "Main" THEN MainKey(key)
     ELSE IF app.current_screen = "MovieDetail" THEN DetailKey(key)
     ELSE OtherKey(key)
  /\ last_key' = Some(key)
  /\ fg_pc' = "movies"
  /\ EventFrame

\* a key press, the characters typed into the search input being those of
\* SearchChars, the input being at most MaxSearchLen long and the lookups
\* running at once at most MaxLookups
HandleKey(key) ==
  /\ app.searching /\ key \in CharKeys =>
       key \in SearchChars /\ Len(app.search_term) < MaxSearchLen
  /\ key = "Enter" => Cardinality(DOMAIN detail_task) < MaxLookups
  /\ KeyPress(key)

\* event::poll times out, or the event is not a key press
NoEvent ==
  /\ At("event")
  /\ last_key' = None
  /\ fg_pc' = "movies"
  /\ UNCHANGED <<app, running, chan, workers, sent, net, recd, run_end, pre_run,
                 detail_task, asked, detail_chan, poster_task, poster_chan>>
  /\ EventFrame

\* ------------------------------------------------------------------------
\* The specification
\* ------------------------------------------------------------------------
Next ==
  \/ RecvProgress
  \/ RecvComplete
  \/ RecvError
  \/ RecvNothing
  \/ DetailComplete
  \/ DetailError
  \/ DetailNothing
  \/ PosterComplete
  \/ PosterError
  \/ PosterNothing
  \/ NoEvent
  \/ \E key \in Keys : HandleKey(key)
  \/ \E w \in DOMAIN workers : Discover(w)
  \/ \E w \in DOMAIN workers : NextDate(w)
  \/ \E w \in DOMAIN workers : FetchDay(w)
  \/ DetailLookup
  \/ PosterDownload
  \/ AdvanceClock

Spec ==
  Init /\ [][Next]_vars

\* The program started without an OMDb API key: no lookup or download thread
\* is ever spawned, so the detail and poster polls always find nothing.
InitRun ==
  /\ Init
  /\ ~app.omdb_api_key.some

NextRun ==
  \/ RecvProgress
  \/ RecvComplete
  \/ RecvError
  \/ RecvNothing
  \/ DetailNothing
  \/ PosterNothing
  \/ NoEvent
  \/ \E key \in Keys : HandleKey(key)
  \/ \E w \in DOMAIN workers : Discover(w)
  \/ \E w \in DOMAIN workers : NextDate(w)
  \/ \E w \in DOMAIN workers : FetchDay(w)
  \/ AdvanceClock

SpecRun ==
  InitRun /\ [][NextRun]_vars

\* The foreground loop keeps iterating and every spawned worker keeps taking
\* its steps (each fetch returns); the user may or may not press keys.
Loop ==
  \/ RecvProgress
  \/ RecvComplete
  \/ RecvError
  \/ RecvNothing
  \/ DetailNothing
  \/ PosterNothing
  \/ NoEvent

WorkerStep ==
  \E w \in DOMAIN workers : Discover(w) \/ NextDate(w) \/ FetchDay(w)

FairRun ==
  SpecRun /\ WF_vars(Loop) /\ WF_vars(WorkerStep)

\* ------------------------------------------------------------------------
\* Properties
\* ------------------------------------------------------------------------
Last(s) ==
  s[Len(s)]

Terminal(m) ==
  m.type \in {"Complete", "Error"}

Count(s, type) ==
  Cardinality({i \in 1..Len(s) : s[i].type = type})

\* the worker of the latest run has returned or unwound
WorkerGone ==
  run_end \notin {"idle", "running"}

\* the step receives a message of the given type from the schedule channel
Receives(type) ==
  /\ Len(recd') = Len(recd) + 1
  /\ Last(recd').type = type

\* C1: the messages a run puts on its channel are zero or more Progress
\* followed by exactly one terminal message (Complete or Error): nothing
\* follows a terminal message, and a worker that has ended has sent one.
C1_ProgressThenOneTerminal ==
  /\ \A i \in 1..Len(sent) : Terminal(sent[i]) => i = Len(sent)
  /\ WorkerGone => sent # <<>> /\ Terminal(Last(sent))

\* C2: at most one worker runs at any time, the worker that runs is the one
\* whose channel the foreground holds while loading_movies is set, and a
\* worker is only spawned by a step taken with loading_movies false.
C2_AtMostOneWorker ==
  /\ [](/\ Cardinality(DOMAIN workers) <= 1
        /\ \A w \in DOMAIN workers : app.loading_movies /\ app.receiver = Some(w))
  /\ [][(DOMAIN workers' \ DOMAIN workers # {}) => ~app.loading_movies]_vars
  /\ [][(app.loading_movies /\ last_key' = Some("g") /\ last_key' # last_key)
          => /\ workers' = workers
             /\ app'.receiver = app.receiver
             /\ chan' = chan]_vars

\* a g press has just been ignored while a worker was running
C2_Witness ==
  /\ last_key = Some("g")
  /\ fg_pc = "movies"
  /\ app.loading_movies
  /\ Cardinality(DOMAIN workers) = 1
  /\ sent # <<>>

\* C3: the step that receives Complete(S) leaves ritz_movie_times = S,
\* available_dates the sorted distinct midnights of S, last_updated = now,
\* the cache asked to hold (S, now) (and holding it when the write works),
\* both selection indices 0, loading_movies false, loading_messages empty
\* and receiver None.
C3_CompleteInstalls ==
  [][Receives("Complete") =>
       LET S == Last(recd').movie_times
           days == {Midnight(S[n][i]) : <<n, i>> \in
                      UNION {{<<m, j>> : j \in 1..Len(S[m])} : m \in DOMAIN S}}
       IN  /\ app'.ritz_movie_times = S
           /\ {app'.available_dates[i] : i \in 1..Len(app'.available_dates)} = days
           /\ \A i \in 1..(Len(app'.available_dates) - 1) :
                app'.available_dates[i] < app'.available_dates[i + 1]
           /\ app'.last_updated = Some(now)
           /\ last_save'.called
           /\ last_save'.movie_times = S
           /\ last_save'.last_updated = now
           /\ last_save'.ok => cache_file' = Some(Serialize(S, now))
           /\ app'.selected_date_index = 0
           /\ app'.selected_movie_index = 0
           /\ ~app'.loading_movies
           /\ app'.loading_messages = <<>>
           /\ app'.receiver = None]_vars

\* Complete has just been handled, it dropped a title the previous Schedule
\* had, and the cache file holds the new snapshot
C3_Witness ==
  /\ fg_pc = "detail"
  /\ recd # <<>>
  /\ Last(recd).type = "Complete"
  /\ DOMAIN pre_run.ritz_movie_times \ DOMAIN app.ritz_movie_times # {}
  /\ last_save.called
  /\ cache_file = Some(Serialize(app.ritz_movie_times, now))

\* C4: when the fetch of a day fails, the foreground receives no Complete and
\* one Error, and once it has received it ritz_movie_times, available_dates,
\* last_updated and the cache file are what they were before the run.
C4_FailedRunChangesNothing ==
  run_end = "fetch_error" =>
    /\ Count(recd, "Complete") = 0
    /\ Count(recd, "Error") <= 1
    /\ ~app.loading_movies =>
         /\ Count(recd, "Error") = 1
         /\ app.ritz_movie_times = pre_run.ritz_movie_times
         /\ app.available_dates = pre_run.available_dates
         /\ app.last_updated = pre_run.last_updated
         /\ cache_file = pre_run.cache_file

\* the fetch of day 2 of 2 failed, the Error has been received, and there
\* was a Schedule to lose
C4_Witness ==
  /\ run_end = "fetch_error"
  /\ ~app.loading_movies
  /\ Count(recd, "Progress") = 2
  /\ Count(recd, "Error") = 1
  /\ app.ritz_movie_times # EmptyMap

ProgressPrefix ==
  "Getting movie times for "

\* C5: an Error for a failed day fetch names the label of the Progress sent
\* just before it and the cause, is the last message of the run, and the
\* worker is gone once it is sent: no later fetch, Progress or Complete.
C5_FetchErrorStopsRun ==
  /\ [](\A i \in 1..Len(sent) :
          (sent[i].type = "Error" /\ Head(sent[i].text) = "Failed to fetch ") =>
            /\ i = Len(sent)
            /\ i > 1
            /\ sent[i - 1].type = "Progress"
            /\ Head(sent[i - 1].text) = ProgressPrefix
            /\ Contains(sent[i].text, Tail(sent[i - 1].text))
            /\ \E cause \in Causes : Contains(sent[i].text, cause)
            /\ pre_run.chan \notin DOMAIN workers
            /\ run_end = "fetch_error"
            /\ Count(sent, "Complete") = 0)
  /\ [][(run_end = "fetch_error" /\ run_end' = "fetch_error") => sent' = sent]_vars

\* the fetch of day 1 of a run failed and its Error is on the channel
C5_Witness ==
  /\ run_end = "fetch_error"
  /\ Len(sent) = 2
  /\ sent[2].type = "Error"
  /\ sent[2].text = <<"Failed to fetch ">> \o L_today \o <<": ", "timeout">>

\* C6: a failed fetch of the root listings page does not end the run in
\* Error.
C6_DiscoveryFailureFallsBack ==
  \A i \in 1..Len(sent) :
    sent[i].type = "Error" => Head(sent[i].text) # "Failed to get dates: "

\* C7: an unparseable time string never ends the worker: a worker only ends
\* by sending its terminal message.
C7_BadTimeSkipped ==
  run_end # "panic"

\* C8: every run is followed by a tick that clears loading_movies and the
\* receiver, unless the user quits first.
C8_RunEventuallyEnds ==
  app.loading_movies ~> ((~app.loading_movies /\ ~app.receiver.some) \/ ~running)

\* C9: ritz_movie_times is the startup value until a Complete is received,
\* changes only in a step that receives Complete, to the Schedule carried,
\* which is one the worker sent; while a run is in flight it and
\* available_dates do not change.
C9_ScheduleReplacedAtomically ==
  /\ [](/\ run_end = "idle" => app.ritz_movie_times = startup
        /\ Count(recd, "Complete") = 0 => app.ritz_movie_times = pre_run.ritz_movie_times
        /\ (recd # <<>> /\ Last(recd).type = "Complete") =>
             /\ app.ritz_movie_times = Last(recd).movie_times
             /\ Last(recd) = Last(sent))
  /\ [][app.ritz_movie_times' # app.ritz_movie_times => Receives("Complete")]_vars
  /\ [][(app.loading_movies /\ app'.loading_movies) =>
          /\ app'.ritz_movie_times = app.ritz_movie_times
          /\ app'.available_dates = app.available_dates]_vars

\* a run is in flight over a non-empty Schedule, two Progress messages have
\* arrived and the date selection key was pressed
C9_Witness ==
  /\ app.loading_movies
  /\ Len(app.loading_messages) = 2
  /\ last_key = Some("l")
  /\ app.ritz_movie_times # EmptyMap

\* no run has been started since the last Error was received
AfterError ==
  /\ recd # <<>>
  /\ Last(recd).type = "Error"

\* the step handles a press of g
PressG ==
  /\ fg_pc = "event"
  /\ fg_pc' = "movies"
  /\ last_key' = Some("g")

\* the step starts a run
StartsRun ==
  /\ ~app.loading_movies
  /\ app'.loading_movies
  /\ app'.receiver.some
  /\ DOMAIN workers' \ DOMAIN workers # {}

\* C10 as stated: the step that receives Error clears the gate, and from then
\* on every g press handled on the Main screen starts a run.
C10_AnyPressOfGRestarts ==
  /\ [][Receives("Error") => ~app'.loading_movies /\ app'.receiver = None]_vars
  /\ [][(PressG /\ AfterError /\ app.current_screen = "Main") => StartsRun]_vars

\* C10 amended: the step that receives Error clears the gate, and from then
\* on every g press handled on the Main screen with search mode off starts a
\* run; with search mode on the g goes to the search input.
C10_PressOfGRestarts ==
  /\ [][Receives("Error") => ~app'.loading_movies /\ app'.receiver = None]_vars
  /\ [][(PressG /\ AfterError /\ app.current_screen = "Main" /\ ~app.searching)
          => StartsRun]_vars
  /\ [][(PressG /\ AfterError /\ app.searching)
          => /\ workers' = workers
             /\ ~app'.loading_movies
             /\ app'.search_term = Append(app.search_term, "g")]_vars

\* a run was started by g after a run that ended in Error
C10_Witness ==
  /\ last_key = Some("g")
  /\ pre_run.after = "Error"
  /\ run_end = "running"
  /\ app.loading_movies

\* ------------------------------------------------------------------------
\* ui/*.rs: the frame terminal.draw renders at the top of every iteration of
\* run_app's loop, as the set of the texts it carries
\* ------------------------------------------------------------------------
\* is_update_recommended counting a first date of today as passed
is_update_recommended_from_today(a, t) ==
  IF a.available_dates = <<>> THEN FALSE
  ELSE date_naive(Head(a.available_dates)) <= date_naive(t)

\* App::is_update_recommended at the time t
is_update_recommended(a, t) ==
  IF a.available_dates = <<>> THEN FALSE
  ELSE date_naive(Head(a.available_dates)) < date_naive(t)

\* App::get_last_updated_display at the time t
get_last_updated_display(a, t) ==
  IF ~a.last_updated.some THEN <<"Never">>
  ELSE LET minutes == t - a.last_updated.val
       IN  IF minutes < 1 THEN <<"Just now">>
           ELSE IF minutes < 60 THEN <<ToString(minutes), " min ago">>
           ELSE IF minutes \div 60 < 24 THEN <<ToString(minutes \div 60), " hr ago">>
           ELSE <<ToString(minutes \div MinutesPerDay), " days ago">>

\* header.rs: the title alone when the area is too narrow for both texts
render_header(a, t, wide) ==
  IF ~wide THEN {<<"Cinema Showtimes">>}
  ELSE {<<"Cinema Showtimes">>,
        (IF is_update_recommended(a, t) THEN <<"Update recommended - Last: ">>
         ELSE <<"Last updated: ">>) \o get_last_updated_display(a, t)}

\* footer.rs: get_instruction_text
get_instruction_text(a) ==
  IF a.searching THEN <<"(Enter) to search, (Esc) to cancel, (q) to quit">>
  ELSE IF a.loading_movies THEN <<"Loading movies... (q) to quit">>
  ELSE IF a.current_screen = "Main"
         THEN (IF a.ritz_movie_times = EmptyMap
                 THEN <<"(g) to load movies, (m) to search movies, (q) to quit">>
                 ELSE <<"scroll, change date, (g) refresh, (q) quit">>)
  ELSE IF a.current_screen = "Movie" THEN <<"(d) to search dates, (q) to quit">>
  ELSE IF a.current_screen = "Exiting" THEN <<"(y) to confirm, (n) to cancel">>
  ELSE <<>>

\* loading.rs lines 28-31: the last five loading messages
LastFive(messages) ==
  SubSeq(messages, IF Len(messages) > 5 THEN Len(messages) - 4 ELSE 1, Len(messages))

\* loading.rs: render_loading
render_loading(a) ==
  {<<"Loading Movies">>, <<"Loading movie data...">>}
    \cup {LastFive(a.loading_messages)[i] : i \in 1..Len(LastFive(a.loading_messages))}

\* t.format("%I:%M %p"): the hour of the 12-hour clock and the minute, both
\* as two digits, and AM or PM
Format12(t) ==
  LET m == t % MinutesPerDay
      h == (((m \div 60) + 11) % 12) + 1
      two(n) == IF n < 10 THEN <<"0", ToString(n)>> ELSE <<ToString(n)>>
  IN  two(h) \o <<":">> \o two(m % 60) \o <<" ", IF m \div 60 < 12 THEN "AM" ELSE "PM">>

\* the place of Format12(t) in the order of strings
Format12Rank(t) ==
  LET m == t % MinutesPerDay
  IN  ((((m \div 60) + 11) % 12) + 1) * 120 + (m % 60) * 2 + (IF m \div 60 < 12 THEN 0 ELSE 1)

RECURSIVE JoinSorted(_)
\* main_content.rs lines 47-57: the formatted times, sorted, joined by ", "
JoinSorted(times) ==
  IF times = <<>> THEN <<>>
  ELSE LET i == CHOOSE j \in 1..Len(times) :
                  \A k \in 1..Len(times) : Format12Rank(times[j]) <= Format12Rank(times[k])
           rest == SubSeq(times, 1, i - 1) \o SubSeq(times, i + 1, Len(times))
       IN  Format12(times[i]) \o (IF rest = <<>> THEN <<>> ELSE <<", ">> \o JoinSorted(rest))

\* main_content.rs: render_date_header, each date as Today or as its day
render_date_header(a, t) ==
  IF a.available_dates = <<>> THEN {<<"No dates available">>}
  ELSE {IF date_naive(a.available_dates[i]) = date_naive(t) THEN <<"Today">>
        ELSE <<"%a %m/%d ", ToString(date_naive(a.available_dates[i]))>> :
          i \in 1..Len(a.available_dates)}

\* main_content.rs: render_main_content
render_main_content(a, t) ==
  IF a.ritz_movie_times = EmptyMap THEN {<<"No movies loaded - press 'g' to load">>}
  ELSE render_date_header(a, t)
       \cup {<<"Movies (", ToString(movie_count(a)), " showing)">>}
       \cup UNION {{movies[i][1], <<"  ">> \o JoinSorted(movies[i][2])} :
                     <<movies, i>> \in UNION {{<<v, j>> : j \in 1..Len(v)} :
                                                v \in get_filtered_movies(a)}}

\* movie_detail.rs: render_movie_detail
render_movie_detail(a) ==
  IF a.loading_movie_detail THEN {<<"Movie Details">>, <<"Fetching movie details from OMDb...">>}
  ELSE IF ~a.omdb_api_key.some THEN {<<"OMDb API Key Required">>}
  ELSE IF a.movie_detail_error.some THEN {<<"Error">>, a.movie_detail_error.val}
  ELSE IF a.selected_movie_detail.some
         THEN {<<"Movie Details - ">> \o a.selected_movie_detail.val.title}
  ELSE {}

\* ui.rs: ui, the frame drawn for the App a at the time t
ui(a, t, wide) ==
  render_header(a, t, wide)
    \cup (IF a.current_screen = "MovieDetail" THEN render_movie_detail(a)
          ELSE IF a.loading_movies THEN render_loading(a)
          ELSE render_main_content(a, t))
    \cup {get_instruction_text(a)}

\* the frames the draw at the top of the loop can render in this state
Frames ==
  {ui(app, now, wide) : wide \in BOOLEAN}

\* the loop is about to draw, the last message it received from the latest
\* run is an Error, and no run has been started since
ErrorToShow ==
  /\ At("movies")
  /\ recd # <<>> /\ Last(recd).type = "Error"
  /\ app.current_screen # "MovieDetail"

\* C11: every frame drawn on a non-detail screen after an Error(reason) was
\* received, the next one included, carries a text that contains reason.
C11_ErrorIsDisplayed ==
  ErrorToShow =>
    \A frame \in Frames : \E text \in frame : Contains(text, Last(recd).text)

\* C12: every Showtime of ritz_movie_times falls on a calendar day that is
\* in available_dates, and available_dates is strictly ascending with no two
\* entries on the same calendar day.
C12_DatesCoverSchedule ==
  /\ \A n \in DOMAIN app.ritz_movie_times :
       \A i \in 1..Len(app.ritz_movie_times[n]) :
         \E k \in 1..Len(app.available_dates) :
           date_naive(app.available_dates[k]) = date_naive(app.ritz_movie_times[n][i])
  /\ \A i, j \in 1..Len(app.available_dates) :
       i < j => /\ app.available_dates[i] < app.available_dates[j]
                /\ date_naive(app.available_dates[i]) # date_naive(app.available_dates[j])

\* a Complete has been processed and left a Schedule with several showtimes
\* on one day and showtimes on two days
C12_Witness ==
  /\ recd # <<>> /\ Last(recd).type = "Complete"
  /\ Len(app.available_dates) >= 2
  /\ \E n \in DOMAIN app.ritz_movie_times :
       \E i, j \in 1..Len(app.ritz_movie_times[n]) :
         /\ i # j
         /\ date_naive(app.ritz_movie_times[n][i]) = date_naive(app.ritz_movie_times[n][j])

Quiet ==
  /\ fg_pc = "movies"
  /\ running = TRUE
  /\ workers = <<>>
  /\ chan = <<>>
  /\ detail_task = <<>>
  /\ asked = None
  /\ detail_chan = <<>>
  /\ poster_task = None
  /\ poster_chan = <<>>
  /\ sent = <<>>
  /\ net = <<>>
  /\ recd = <<>>
  /\ run_end = "idle"
  /\ startup = EmptyMap
  /\ last_save = NoSave
  /\ last_key = None

QuietFrame ==
  UNCHANGED <<fg_pc, running, workers, chan, detail_task, asked, detail_chan, poster_task,
              poster_chan, sent, net, recd, run_end, pre_run, startup, last_save, last_key>>

\* showtimes on two days: an afternoon, a midnight and the minute before
\* the next midnight
ShowTimes ==
  {3 * MinutesPerDay + 840, 4 * MinutesPerDay, 4 * MinutesPerDay + 1439}

\* the Schedules with one or two titles and up to MaxTimes showtimes each
Schedules ==
  UNION {[names -> UNION {[1..n -> ShowTimes] : n \in 1..MaxTimes}] :
           names \in SUBSET {T_A, T_b} \ {{}}}

\* an App that holds the Schedule movie_times
AppWith(movie_times, last_updated) ==
  update_available_dates([NewApp(None) EXCEPT !.ritz_movie_times = movie_times,
                                              !.last_updated = last_updated])

\* app.rs lines 113-136: save_cache by an App with a Schedule, then
\* load_cache by the App::new of the next start
InitCache ==
  /\ cache_file \in {None, Some(Corrupt)}
  /\ now = StartTime
  /\ \E movie_times \in Schedules, last_updated \in {None, Some(StartTime - 1), Some(StartTime)} :
       app = AppWith(movie_times, last_updated)
  /\ call = NoCall
  /\ Quiet
  /\ pre_run = Snapshot(0)

\* App::save_cache
SaveCache ==
  /\ call.fn = "none"
  /\ \E write_ok \in BOOLEAN :
       /\ cache_file' = save_cache(app, cache_file, write_ok)
       /\ call' = [fn |-> "save_cache", app |-> app, ok |-> write_ok]
  /\ UNCHANGED <<app, now>>
  /\ QuietFrame

\* App::new of the next start of the program
FreshLoad ==
  /\ call.fn \in {"none", "save_cache"}
  /\ \E key \in ApiKeys : app' = load_cache(NewApp(key), cache_file)
  /\ call' = [fn |-> "load_cache", prev |-> call, file |-> cache_file]
  /\ UNCHANGED <<cache_file, now>>
  /\ QuietFrame

NextCache ==
  \/ SaveCache
  \/ FreshLoad

SpecCache ==
  InitCache /\ [][NextCache]_vars

\* C14: when an App with a Schedule and a last_updated timestamp saves the
\* cache (and the write succeeds) and a fresh App then loads it, the fresh
\* App has the same ritz_movie_times and the same last_updated.
C14_CacheRoundTrip ==
  (/\ call.fn = "load_cache"
   /\ call.prev.fn = "save_cache"
   /\ call.prev.ok
   /\ call.prev.app.last_updated.some)
  => /\ app.ritz_movie_times = call.prev.app.ritz_movie_times
     /\ app.last_updated = call.prev.app.last_updated

\* a Schedule with two titles, a showtime that is not at midnight and a
\* timestamp has been saved and loaded
C14_Witness ==
  /\ call.fn = "load_cache"
  /\ call.prev.fn = "save_cache"
  /\ call.prev.ok
  /\ call.prev.app.last_updated = Some(StartTime - 1)
  /\ DOMAIN app.ritz_movie_times = {T_A, T_b}
  /\ app.ritz_movie_times[T_A] = <<4 * MinutesPerDay + 1439, 3 * MinutesPerDay + 840>>

\* C15: when the cache file is missing, unreadable or not decodable,
\* App::new returns the App it built before load_cache: empty Schedule, no
\* last_updated, no available dates, not loading, no error recorded.
C15_BadCacheIsNoCache ==
  (/\ call.fn = "load_cache"
   /\ ~call.file.some \/ ~call.file.val.valid)
  => /\ app.ritz_movie_times = EmptyMap
     /\ app.last_updated = None
     /\ app.available_dates = <<>>
     /\ ~app.loading_movies
     /\ app = NewApp(app.omdb_api_key)

\* an undecodable file has been loaded
C15_Witness ==
  /\ call.fn = "load_cache"
  /\ call.file = Some(Corrupt)
  /\ app.ritz_movie_times = EmptyMap

\* the App the Complete arm leaves when the write succeeds
AfterComplete(a, movie_times, t) ==
  [update_available_dates([a EXCEPT !.ritz_movie_times = movie_times,
                                    !.last_updated = Some(t)])
     EXCEPT !.loading_movies = FALSE,
            !.loading_messages = <<>>,
            !.receiver = None,
            !.selected_movie_index = 0,
            !.list_state = Some(0)]

\* C16: a step that receives Complete and whose cache write fails leaves the
\* App exactly as a successful write would (Schedule, dates, timestamp,
\* indices, loading flag, no message), keeps the old file and keeps running.
C16_WriteFailureSwallowed ==
  [][(Receives("Complete") /\ last_save'.called /\ ~last_save'.ok) =>
       /\ app' = AfterComplete(app, Last(recd').movie_times, now)
       /\ app'.loading_messages = <<>>
       /\ cache_file' = cache_file
       /\ running']_vars

\* a Complete whose write failed has installed a Schedule the file lacks
C16_Witness ==
  /\ last_save.called /\ ~last_save.ok
  /\ app.ritz_movie_times = last_save.movie_times
  /\ app.ritz_movie_times # EmptyMap
  /\ app.last_updated = Some(last_save.last_updated)
  /\ cache_file # Some(Serialize(app.ritz_movie_times, app.last_updated.val))

\* ------------------------------------------------------------------------
\* ritz.rs lines 63-108: calculate_date_from_tag called with every label at
\* every time of a week and a day
\* ------------------------------------------------------------------------
\* Local::now(): the first, a middle and the last minute of eight days
Nows ==
  {d * MinutesPerDay + m : d \in DaysPerWeek..(2 * DaysPerWeek),
                           m \in {0, 600, MinutesPerDay - 1}}

\* the labels: the weekday names, two of them capitalized, today, tomorrow,
\* and labels the function does not know
Labels ==
  {WeekdayNames[n] : n \in 1..DaysPerWeek}
    \cup {<<"M", "o", "n", "d", "a", "y">>, <<"S", "u", "n", "d", "a", "y">>}
    \cup {L_today, L_tomorrow, L_later, L_all, <<>>,
          <<"T", "o", "d", "a", "y">>, <<"T", "o", "m", "o", "r", "r", "o", "w">>}

InitLabel ==
  /\ now \in Nows
  /\ cache_file = None
  /\ app = NewApp(None)
  /\ call = NoCall
  /\ Quiet
  /\ pre_run = Snapshot(0)

ResolveLabel ==
  /\ call.fn = "none"
  /\ \E tag \in Labels :
       call' = [fn |-> "calculate_date_from_tag", tag |-> tag,
                ret |-> calculate_date_from_tag(tag, now)]
  /\ UNCHANGED <<app, now, cache_file>>
  /\ QuietFrame

NextLabel ==
  ResolveLabel

SpecLabel ==
  InitLabel /\ [][NextLabel]_vars

\* the label of the call is a weekday name, in any case of letters
IsWeekdayLabel ==
  \E n \in 1..DaysPerWeek : WeekdayNames[n] = ToLower(call.tag)

\* C17: for a weekday label the result is a midnight whose weekday is the
\* label's, at or after today and at most 6 days after it, and it is today
\* when the label names today's weekday.
C17_WeekdayLabelWithinSixDays ==
  (call.fn = "calculate_date_from_tag" /\ IsWeekdayLabel) =>
    /\ WeekdayNames[weekday(call.ret) + 1] = ToLower(call.tag)
    /\ call.ret = Midnight(call.ret)
    /\ call.ret >= Midnight(now)
    /\ call.ret <= Midnight(now) + 6 * MinutesPerDay
    /\ WeekdayNames[weekday(now) + 1] = ToLower(call.tag) => call.ret = Midnight(now)

\* monday asked for on a wednesday afternoon: the monday of next week
C17_Witness ==
  /\ call.fn = "calculate_date_from_tag"
  /\ call.tag = WeekdayNames[1]
  /\ weekday(now) = 2 /\ now # Midnight(now)
  /\ call.ret = Midnight(now) + 5 * MinutesPerDay

\* C18: today resolves to the midnight of today, tomorrow to the midnight
\* one day later, and a label that is neither of them nor a weekday name to
\* the midnight of today.
C18_TodayTomorrowAndUnknown ==
  call.fn = "calculate_date_from_tag" =>
    /\ call.tag = L_today => call.ret = Midnight(now)
    /\ call.tag = L_tomorrow => call.ret = Midnight(now) + MinutesPerDay
    /\ (call.tag \notin {L_today, L_tomorrow} /\ ~IsWeekdayLabel) => call.ret = Midnight(now)

\* an unknown label resolved in the last minute of a day
C18_Witness ==
  /\ call.fn = "calculate_date_from_tag"
  /\ call.tag = L_later
  /\ now = Midnight(now) + MinutesPerDay - 1
  /\ call.ret = Midnight(now)

\* ------------------------------------------------------------------------
\* utils.rs lines 7-10: get_offset_from_string called with every well-formed
\* time of the 12-hour clock
\* ------------------------------------------------------------------------
DigitChar(n) ==
  CHOOSE c \in Digits : DigitVal(c) = n

\* the string h:mm am or h:mm pm
ClockString(h, mm, pm) ==
  (IF h < 10 THEN <<DigitChar(h)>> ELSE <<DigitChar(h \div 10), DigitChar(h % 10)>>)
    \o <<":", DigitChar(mm \div 10), DigitChar(mm % 10), " ", IF pm THEN "p" ELSE "a", "m">>

InitClock ==
  /\ now = StartTime
  /\ cache_file = None
  /\ app = NewApp(None)
  /\ call = NoCall
  /\ Quiet
  /\ pre_run = Snapshot(0)

ParseTime ==
  /\ call.fn = "none"
  /\ \E h \in 1..12, mm \in 0..59, pm \in BOOLEAN :
       call' = [fn |-> "get_offset_from_string", h |-> h, mm |-> mm, pm |-> pm,
                time_string |-> ClockString(h, mm, pm),
                ret |-> get_offset_from_string(ClockString(h, mm, pm))]
  /\ UNCHANGED <<app, now, cache_file>>
  /\ QuietFrame

NextClock ==
  ParseTime

SpecClock ==
  InitClock /\ [][NextClock]_vars

\* C19: for the string h:mm am|pm with h in 1..12 and mm in 00..59 the
\* function returns ((h mod 12) + 12 if pm) * 60 + mm, a value in 0..1439;
\* 7:30 pm gives 1170, 12:00 am gives 0 and 12:15 pm gives 735.
C19_OffsetOfClockString ==
  call.fn = "get_offset_from_string" =>
    /\ call.ret.ok
    /\ call.ret.val = ((call.h % 12) + (IF call.pm THEN 12 ELSE 0)) * 60 + call.mm
    /\ call.ret.val \in 0..(MinutesPerDay - 1)
    /\ call.time_string = <<"7", ":", "3", "0", " ", "p", "m">> => call.ret.val = 1170
    /\ call.time_string = <<"1", "2", ":", "0", "0", " ", "a", "m">> => call.ret.val = 0
    /\ call.time_string = <<"1", "2", ":", "1", "5", " ", "p", "m">> => call.ret.val = 735

\* 12:15 pm has been parsed
C19_Witness ==
  /\ call.fn = "get_offset_from_string"
  /\ call.time_string = <<"1", "2", ":", "1", "5", " ", "p", "m">>
  /\ call.ret = Ok(735)

\* ------------------------------------------------------------------------
\* app.rs lines 275-305: get_filtered_movies called for every Schedule of up
\* to three titles and every date that can be selected
\* ------------------------------------------------------------------------
T_Ba ==
  <<"B", "a">>

\* the Schedules with up to three titles, the empty one included
FilterSchedules ==
  UNION {[names -> UNION {[1..n -> ShowTimes] : n \in 1..MaxTimes}] :
           names \in SUBSET {T_A, T_b, T_Ba}}

InitFilter ==
  /\ now = StartTime
  /\ cache_file = None
  /\ \E movie_times \in FilterSchedules : app = AppWith(movie_times, None)
  /\ call = NoCall
  /\ Quiet
  /\ pre_run = Snapshot(0)

\* the next date is selected
SelectDate ==
  /\ call.fn = "none"
  /\ app.selected_date_index + 1 < Len(app.available_dates)
  /\ app' = next_date(app)
  /\ UNCHANGED <<call, now, cache_file>>
  /\ QuietFrame

FilterMovies ==
  /\ call.fn = "none"
  /\ \E movies \in get_filtered_movies(app) :
       call' = [fn |-> "get_filtered_movies", ret |-> movies]
  /\ UNCHANGED <<app, now, cache_file>>
  /\ QuietFrame

NextFilter ==
  \/ SelectDate
  \/ FilterMovies

SpecFilter ==
  InitFilter /\ [][NextFilter]_vars

\* t is on the calendar day of the selected date
OnSelectedDay(t) ==
  /\ app.selected_date_index < Len(app.available_dates)
  /\ date_naive(t) = date_naive(app.available_dates[app.selected_date_index + 1])

\* how often t occurs in the sequence times
Occurrences(times, t) ==
  Cardinality({k \in 1..Len(times) : times[k] = t})

\* C20: the result holds each title with a showtime on the selected day
\* once and no other title; with each title come exactly its showtimes of
\* that day, at least one; the titles are in the order of their lower-cased
\* forms.
C20_FilteredBySelectedDay ==
  call.fn = "get_filtered_movies" =>
    /\ {call.ret[i][1] : i \in 1..Len(call.ret)}
         = {n \in DOMAIN app.ritz_movie_times :
              \E k \in 1..Len(app.ritz_movie_times[n]) :
                OnSelectedDay(app.ritz_movie_times[n][k])}
    /\ \A i, j \in 1..Len(call.ret) : i # j => call.ret[i][1] # call.ret[j][1]
    /\ \A i \in 1..Len(call.ret) :
         /\ call.ret[i][2] # <<>>
         /\ \A t \in ShowTimes :
              Occurrences(call.ret[i][2], t)
                = IF OnSelectedDay(t)
                    THEN Occurrences(app.ritz_movie_times[call.ret[i][1]], t)
                    ELSE 0
    /\ \A i, j \in 1..Len(call.ret) :
         i < j => StrLeq(ToLower(call.ret[i][1]), ToLower(call.ret[j][1]))

\* the second date is selected; one title has no showtime on it, one has a
\* showtime on each date, and b comes before Ba
C20_Witness ==
  /\ call.fn = "get_filtered_movies"
  /\ app.selected_date_index = 1
  /\ DOMAIN app.ritz_movie_times = {T_A, T_b, T_Ba}
  /\ Len(call.ret) = 2
  /\ call.ret[1][1] = T_b /\ call.ret[2][1] = T_Ba
  /\ Len(app.ritz_movie_times[T_b]) = 2 /\ Len(call.ret[1][2]) = 1

\* ------------------------------------------------------------------------
\* app.rs lines 158-177: is_update_recommended called for every Schedule,
\* the empty one included, on the days before, of and after its showtimes
\* ------------------------------------------------------------------------
\* Local::now(): the first and the last minute of four days
StaleNows ==
  {d * MinutesPerDay + m : d \in 2..5, m \in {0, MinutesPerDay - 1}}

InitStale ==
  /\ now \in StaleNows
  /\ cache_file = None
  /\ \E movie_times \in Schedules \cup {EmptyMap} : app = AppWith(movie_times, None)
  /\ call = NoCall
  /\ Quiet
  /\ pre_run = Snapshot(0)

CheckStale ==
  /\ call.fn = "none"
  /\ call' = [fn |-> "is_update_recommended", ret |-> is_update_recommended(app, now)]
  /\ UNCHANGED <<app, now, cache_file>>
  /\ QuietFrame

NextStale ==
  CheckStale

SpecStale ==
  InitStale /\ [][NextStale]_vars

\* C21: is_update_recommended is true exactly when available_dates has an
\* entry, and its earliest entry is on a calendar day before today's; so it
\* is false for no dates and for an earliest date of today or later.
C21_StaleWhenEarliestDatePassed ==
  call.fn = "is_update_recommended" =>
    /\ call.ret = (\E i \in 1..Len(app.available_dates) :
                     /\ \A j \in 1..Len(app.available_dates) :
                          app.available_dates[i] <= app.available_dates[j]
                     /\ date_naive(app.available_dates[i]) < date_naive(now))
    /\ app.available_dates = <<>> => ~call.ret
    /\ (\A j \in 1..Len(app.available_dates) :
          date_naive(app.available_dates[j]) >= date_naive(now)) => ~call.ret

\* the only date is yesterday and the answer is true
C21_Witness ==
  /\ call.fn = "is_update_recommended"
  /\ Len(app.available_dates) = 1
  /\ date_naive(app.available_dates[1]) = date_naive(now) - 1
  /\ call.ret

\* ------------------------------------------------------------------------
\* Properties of the worker's requests
\* ------------------------------------------------------------------------
IsDayTraffic(e) ==
  e.kind \in {"day", "sleep"}

\* the day-page requests and the sleeps of the latest run, in order
DayTraffic ==
  SelectSeq(net, IsDayTraffic)

\* C22: the first thing a run does after discovery is a day-page request,
\* not a sleep; a later day-page request follows exactly one sleep, which
\* follows the request before it; every sleep lasts 1000 to 2000 ms.
C22_OneSleepBetweenRequests ==
  /\ DayTraffic # <<>> => DayTraffic[1].kind = "day"
  /\ \A i \in 2..Len(DayTraffic) :
       /\ DayTraffic[i].kind = "day" => DayTraffic[i - 1].kind = "sleep"
       /\ DayTraffic[i].kind = "sleep" => DayTraffic[i - 1].kind = "day"
  /\ \A w \in DOMAIN workers :
       workers[w].sleep_secs.some =>
         workers[w].sleep_secs.val >= 1000 /\ workers[w].sleep_secs.val <= 2000

\* a run has made two day-page requests and slept after each
C22_Witness ==
  /\ Len(DayTraffic) = 4
  /\ DayTraffic[3].kind = "day" /\ DayTraffic[3].label = L_tomorrow
  /\ \E w \in DOMAIN workers : workers[w].sleep_secs = Some(MinSleep)

IsDayRequest(e) ==
  e.kind = "day"

\* the day-page requests of the latest run, in order
DayRequests ==
  SelectSeq(net, IsDayRequest)

IsProgress(m) ==
  m.type = "Progress"

\* the Progress messages of the latest run, in order
ProgressSent ==
  SelectSeq(sent, IsProgress)

\* the labels the discovery of the latest run found
LabelsFound ==
  IF net # <<>> /\ net[1].result.ok THEN Endpoints(net[1].result.val) ELSE <<>>

\* C23: the k-th Progress names the k-th discovered label and is sent before
\* the k-th day-page request, which asks for that label; a run that
\* completes over n labels has sent n Progress and then Complete; a run
\* whose k-th fetch fails has sent k Progress and then Error.
C23_ProgressNamesEachLabel ==
  /\ Len(DayRequests) <= Len(ProgressSent)
  /\ Len(ProgressSent) <= Len(DayRequests) + 1
  /\ Len(ProgressSent) <= Len(LabelsFound)
  /\ \A k \in 1..Len(ProgressSent) :
       /\ sent[k] = ProgressSent[k]
       /\ ProgressSent[k].text = <<"Getting movie times for ">> \o LabelsFound[k]
  /\ \A k \in 1..Len(DayRequests) : DayRequests[k].label = LabelsFound[k]
  /\ run_end = "complete" =>
       /\ Len(ProgressSent) = Len(LabelsFound)
       /\ Len(sent) = Len(LabelsFound) + 1
       /\ Last(sent).type = "Complete"
  /\ run_end = "fetch_error" =>
       /\ Len(ProgressSent) = Len(DayRequests)
       /\ ~Last(DayRequests).result.ok
       /\ Len(sent) = Len(DayRequests) + 1
       /\ Last(sent).type = "Error"

\* a run over today and tomorrow failed on its second day
C23_Witness ==
  /\ run_end = "fetch_error"
  /\ LabelsFound = <<L_today, L_tomorrow>>
  /\ Len(DayRequests) = 2
  /\ Len(sent) = 3
  /\ sent[2].text = <<"Getting movie times for ">> \o L_tomorrow

\* the (title, times) pairs parsed from the page of the i-th day request
Parsed(i) ==
  parse_showtimes_from_html(DayRequests[i].result.val)

\* one entry for the k-th time of the r-th pair of the i-th day request:
\* the title, the date the worker resolved for the label of the request, and
\* that date plus the offset of the time
ParsedTimes ==
  UNION {LET date == DayRequests[i].date
             pairs == Parsed(i)
         IN  UNION {{[at |-> <<i, r, k>>, title |-> pairs[r][1], date |-> date,
                      showtime |-> date + ParseClock(pairs[r][2][k]).val] :
                       k \in 1..Len(pairs[r][2])} : r \in 1..Len(pairs)} :
           i \in {j \in 1..Len(DayRequests) : DayRequests[j].result.ok}}

\* C24: the Schedule of a Complete has as keys the titles that have a
\* parsed time on some day, and under each title every date(label) +
\* offset(time) of that title as often as it was parsed, from all rows and
\* days, and nothing else; every Showtime is on the day resolved for its
\* label.
C24_CompleteCarriesAllShowtimes ==
  run_end = "complete" =>
    LET movie_times == Last(sent).movie_times
        parsed == ParsedTimes
    IN  /\ DOMAIN movie_times = {e.title : e \in parsed}
        /\ \A title \in DOMAIN movie_times :
             /\ Len(movie_times[title]) = Cardinality({e \in parsed : e.title = title})
             /\ \A e \in parsed :
                  e.title = title =>
                    Occurrences(movie_times[title], e.showtime)
                      = Cardinality({f \in parsed :
                                       f.title = title /\ f.showtime = e.showtime})
        /\ \A e \in parsed :
             /\ e.date = Midnight(e.date)
             /\ date_naive(e.showtime) = date_naive(e.date)

\* a run over two days has completed: A has the times of two rows on each
\* day, and the title whose row has no time is not a key
C24_Witness ==
  /\ run_end = "complete"
  /\ Len(DayRequests) = 2
  /\ DOMAIN Last(sent).movie_times = {T_A, T_b}
  /\ Len(Last(sent).movie_times[T_A]) = 6
  /\ Parsed(1)[3] = << <<"c">>, <<>> >>

\* ------------------------------------------------------------------------
\* ritz.rs lines 15-37: parse_showtimes_from_html called with every page of
\* up to MaxRows listing rows
\* ------------------------------------------------------------------------
\* a li.Stack row: no title link, a blank title, a padded title, a plain
\* title; no span.Time, a blank one, one, two with a blank one, one that is
\* not a time of day
ListingRows ==
  {[title |-> title, times |-> times] :
     title \in {None, Some(<<" ">>), Some(<<" ">> \o T_A \o <<" ">>), Some(T_b)},
     times \in {<<>>, << <<" ">> >>, <<S_200pm>>, <<<<" ">> \o S_715pm, <<" ">>, S_200pm>>,
                <<S_bad>>}}

ListingPages ==
  UNION {[1..n -> ListingRows] : n \in 0..MaxRows}

InitParse ==
  /\ now = StartTime
  /\ cache_file = None
  /\ app = NewApp(None)
  /\ call = NoCall
  /\ Quiet
  /\ pre_run = Snapshot(0)

ParsePage ==
  /\ call.fn = "none"
  /\ \E html \in ListingPages :
       call' = [fn |-> "parse_showtimes_from_html", html |-> html,
                ret |-> parse_showtimes_from_html(html)]
  /\ UNCHANGED <<app, now, cache_file>>
  /\ QuietFrame

NextParse ==
  ParsePage

SpecParse ==
  InitParse /\ [][NextParse]_vars

\* the rows of the page of the call that have a title link whose trimmed
\* text is not empty
TitledRows ==
  {i \in 1..Len(call.html) :
     call.html[i].title.some /\ Trim(call.html[i].title.val) # <<>>}

NotEmpty(text) ==
  text # <<>>

\* C25: the result has one pair for each row with a title link of non-empty
\* trimmed text and none for another row, in the order of the rows; the
\* pair holds the trimmed title and the trimmed texts of the row's times
\* that are not empty, in order, which may be none.
C25_OnePairPerTitledRow ==
  call.fn = "parse_showtimes_from_html" =>
    /\ Len(call.ret) = Cardinality(TitledRows)
    /\ \A k \in 1..Len(call.ret) :
         LET i == CHOOSE r \in TitledRows : Cardinality({j \in TitledRows : j < r}) = k - 1
         IN  /\ call.ret[k][1] = Trim(call.html[i].title.val)
             /\ call.ret[k][2]
                  = SelectSeq([n \in 1..Len(call.html[i].times) |-> Trim(call.html[i].times[n])],
                              NotEmpty)

\* a row without a title link was dropped and a titled row whose only time
\* is blank gives a pair with no time
C25_Witness ==
  /\ call.fn = "parse_showtimes_from_html"
  /\ Len(call.html) = 2
  /\ ~call.html[1].title.some /\ call.html[1].times = <<S_200pm>>
  /\ call.html[2].times = << <<" ">> >>
  /\ call.ret = << <<T_A, <<>>>> >>

\* ------------------------------------------------------------------------
\* ritz.rs lines 39-61: scrape_available_day_endpoints with every root page
\* of up to MaxRows anchors, and with a failed fetch
\* ------------------------------------------------------------------------
\* an anchor inside or outside a .swiper-slide, without an href, or with one
\* to a day, to all days, to no day, to a day of another host, or elsewhere
Anchors ==
  {[slide |-> slide, href |-> href] :
     slide \in BOOLEAN,
     href \in {None, Some(Href(L_today)), Some(Href(L_tomorrow)), Some(Href(L_all)),
               Some(Href(<<>>)), Some(<<"https://host">> \o Href(L_today)),
               Some(<<"/about">>)}}

RootDocuments ==
  UNION {[1..n -> Anchors] : n \in 0..MaxRows}

InitScrape ==
  /\ now = StartTime
  /\ cache_file = None
  /\ app = NewApp(None)
  /\ call = NoCall
  /\ Quiet
  /\ pre_run = Snapshot(0)

ScrapeRoot ==
  /\ call.fn = "none"
  /\ \E html \in {Err} \cup {Ok(document) : document \in RootDocuments} :
       call' = [fn |-> "scrape_available_day_endpoints", html |-> html,
                ret |-> IF html.ok THEN Ok(Endpoints(html.val)) ELSE Err]
  /\ UNCHANGED <<app, now, cache_file>>
  /\ QuietFrame

NextScrape ==
  ScrapeRoot

SpecScrape ==
  InitScrape /\ [][NextScrape]_vars

\* the anchors of the fetched page of the call that are inside a slide and
\* whose href is /now-showing/ followed by a label other than all or nothing
DayAnchors ==
  LET document == call.html.val
  IN  {i \in 1..Len(document) :
         /\ document[i].slide
         /\ document[i].href.some
         /\ document[i].href.val # <<>>
         /\ Head(document[i].href.val) = NowShowing
         /\ Tail(document[i].href.val) \notin {L_all, <<>>}}

\* C26: on a fetched root page the result is the labels of the day anchors in
\* the order of the anchors, one for each anchor so that a label linked twice
\* is returned twice, and no label of the result is all or empty.
C26_LabelsInAnchorOrder ==
  (call.fn = "scrape_available_day_endpoints" /\ call.html.ok) =>
    /\ call.ret.ok
    /\ Len(call.ret.val) = Cardinality(DayAnchors)
    /\ \A k \in 1..Len(call.ret.val) :
         LET i == CHOOSE a \in DayAnchors : Cardinality({j \in DayAnchors : j < a}) = k - 1
         IN  call.ret.val[k] = Tail(call.html.val[i].href.val)
    /\ \A k \in 1..Len(call.ret.val) :
         call.ret.val[k] # L_all /\ call.ret.val[k] # <<>>

\* the same day linked twice
C26_Witness ==
  /\ call.fn = "scrape_available_day_endpoints" /\ call.html.ok
  /\ call.ret = Ok(<<L_today, L_today>>)

\* ------------------------------------------------------------------------
\* main.rs lines 52-77: the poll of the schedule channel
\* ------------------------------------------------------------------------
\* C27: the messages received in a run are, in order, the first of the
\* messages its worker has sent; while the run is loading, loading_messages
\* is the texts of the Progress received, which are the first of the texts
\* of the Progress sent; a terminal message is received only when
\* everything sent before it has been received.
C27_ReceivedInSendOrder ==
  /\ Len(recd) <= Len(sent)
  /\ \A i \in 1..Len(recd) : recd[i] = sent[i]
  /\ app.loading_movies =>
       /\ Len(app.loading_messages) = Len(recd)
       /\ Len(app.loading_messages) <= Len(ProgressSent)
       /\ \A i \in 1..Len(app.loading_messages) :
            app.loading_messages[i] = ProgressSent[i].text
  /\ (recd # <<>> /\ Terminal(Last(recd))) =>
       \A i \in 1..Len(sent) : i < Len(recd) => sent[i].type = "Progress" /\ recd[i] = sent[i]

\* the foreground has shown the first of two Progress the worker has sent
C27_Witness ==
  /\ app.loading_movies
  /\ Len(app.loading_messages) = 1
  /\ Len(ProgressSent) = 2
  /\ app.loading_messages[1] = ProgressSent[1].text
  /\ ProgressSent[1].text # ProgressSent[2].text

\* C28: a poll of the schedule channel that finds no message changes
\* nothing of the App: not the Schedule, the available dates, last_updated,
\* the loading flag, the loading messages, the receiver or the selection.
C28_EmptyPollChangesNothing ==
  [][(At("movies") /\ fg_pc' = "detail" /\ app.receiver.some /\ chan = <<>>) =>
       /\ app'.ritz_movie_times = app.ritz_movie_times
       /\ app'.available_dates = app.available_dates
       /\ app'.last_updated = app.last_updated
       /\ app'.loading_movies = app.loading_movies
       /\ app'.loading_messages = app.loading_messages
       /\ app'.receiver = app.receiver
       /\ app'.selected_movie_index = app.selected_movie_index
       /\ app'.selected_date_index = app.selected_date_index
       /\ app'.list_state = app.list_state
       /\ chan' = chan /\ recd' = recd]_vars

\* the poll of this iteration was made with the receiver held and found
\* nothing: the run has started and nothing of it has been received
C28_Witness ==
  /\ fg_pc = "detail"
  /\ app.loading_movies /\ app.receiver.some
  /\ run_end = "running"
  /\ recd = <<>> /\ chan = <<>>
  /\ app.loading_messages = <<>>

\* C30: in every state loading_movies is set exactly when the receiver is
\* held, and once the terminal message of a run has been received nothing
\* more is received until a new run starts.
C30_LoadingIffReceiver ==
  /\ [](app.loading_movies <=> app.receiver.some)
  /\ [][(recd # <<>> /\ Terminal(Last(recd))) => (recd' = recd \/ recd' = <<>>)]_vars

\* a run has ended with its terminal message: the flag is down, the receiver
\* is gone and the worker is gone
C30_Witness ==
  /\ recd # <<>> /\ Terminal(Last(recd))
  /\ recd = sent
  /\ ~app.loading_movies /\ ~app.receiver.some
  /\ WorkerGone
  /\ fg_pc = "movies"

\* ------------------------------------------------------------------------
\* main.rs lines 52-122: the three polls side by side.  The program is
\* started with an OMDb key and a cache, and the user starts runs and opens
\* the detail of a movie.
\* ------------------------------------------------------------------------
TaskKeys ==
  {"g", "Enter"}

InitTasks ==
  /\ Init
  /\ app.omdb_api_key.some
  /\ cache_file.some /\ app.ritz_movie_times # EmptyMap

NextTasks ==
  \/ RecvProgress
  \/ RecvComplete
  \/ RecvError
  \/ RecvNothing
  \/ DetailComplete
  \/ DetailError
  \/ DetailNothing
  \/ PosterComplete
  \/ PosterError
  \/ PosterNothing
  \/ NoEvent
  \/ \E key \in TaskKeys : HandleKey(key)
  \/ \E w \in DOMAIN workers : Discover(w)
  \/ \E w \in DOMAIN workers : NextDate(w)
  \/ \E w \in DOMAIN workers : FetchDay(w)
  \/ DetailLookup
  \/ PosterDownload

SpecTasks ==
  InitTasks /\ [][NextTasks]_vars

\* the step takes a message from the detail channel or the poster channel
ReceivesDetailOrPoster ==
  \/ At("detail") /\ fg_pc' = "poster" /\ app.detail_receiver.some /\ detail_chan # <<>>
  \/ At("poster") /\ fg_pc' = "event" /\ app.poster_receiver.some /\ poster_chan # <<>>

\* C29: a step that takes a detail or poster message changes none of the
\* fields of the schedule task, and a step that takes a schedule message
\* changes none of the fields of the detail and poster tasks.
C29_TasksIndependent ==
  [][/\ ReceivesDetailOrPoster =>
          /\ app'.ritz_movie_times = app.ritz_movie_times
          /\ app'.available_dates = app.available_dates
          /\ app'.last_updated = app.last_updated
          /\ app'.loading_movies = app.loading_movies
          /\ app'.loading_messages = app.loading_messages
          /\ app'.receiver = app.receiver
          /\ chan' = chan /\ recd' = recd
     /\ Len(recd') = Len(recd) + 1 =>
          /\ app'.selected_movie_detail = app.selected_movie_detail
          /\ app'.movie_detail_error = app.movie_detail_error
          /\ app'.loading_movie_detail = app.loading_movie_detail
          /\ app'.detail_receiver = app.detail_receiver
          /\ app'.poster_protocol = app.poster_protocol
          /\ app'.loading_poster = app.loading_poster
          /\ app'.poster_receiver = app.poster_receiver
          /\ detail_chan' = detail_chan /\ poster_chan' = poster_chan]_vars

\* the detail of a movie arrived and its poster is loading while a run that
\* has shown a Progress is still loading
C29_Witness ==
  /\ app.loading_movies /\ recd # <<>>
  /\ app.selected_movie_detail.some
  /\ app.loading_poster /\ app.poster_receiver.some
  /\ fg_pc = "poster"

\* ------------------------------------------------------------------------
\* ritz.rs lines 157-190: the sleeps of a run that completed
\* ------------------------------------------------------------------------
IsSleep(e) ==
  e.kind = "sleep"

\* the sleeps of the latest run
Sleeps ==
  SelectSeq(net, IsSleep)

\* C31: a run that completed over n >= 1 labels slept n - 1 times, and the
\* last thing it did on the network before it sent Complete was the request
\* of the last day's page, not a sleep.
C31_SleepOnlyBeforeNextRequest ==
  (run_end = "complete" /\ DayRequests # <<>>) =>
    /\ Len(Sleeps) = Len(DayRequests) - 1
    /\ Last(net).kind = "day"

\* ------------------------------------------------------------------------
\* main.rs lines 131-151: the keys of the search input.  The user opens the
\* search, types any of the characters, and ends it or cancels it.
\* ------------------------------------------------------------------------
SearchKeys ==
  {"m", "q", "j", "Enter", "Esc", "Backspace"}

InitSearch ==
  InitRun

NextSearch ==
  \/ RecvNothing
  \/ DetailNothing
  \/ PosterNothing
  \/ NoEvent
  \/ \E key \in SearchKeys :
       /\ app.searching /\ key \in CharKeys => Len(app.search_term) < MaxSearchLen
       /\ KeyPress(key)

SpecSearch ==
  InitSearch /\ [][NextSearch]_vars

\* C32: a press of q handled while the search input is active ends the
\* program, as the instruction text of the footer for that state says.
C32_QuitsWhileSearching ==
  [][(At("event") /\ app.searching /\ last_key' = Some("q")
        /\ get_instruction_text(app) = <<"(Enter) to search, (Esc) to cancel, (q) to quit">>)
       => ~running']_vars

\* ------------------------------------------------------------------------
\* app.rs lines 312-337: fetch_movie_detail without an OMDb key
\* ------------------------------------------------------------------------
\* the step handles Enter on the Main screen with a movie selected, which
\* calls fetch_movie_detail
OpensDetail ==
  /\ At("event") /\ ~app.searching /\ app.current_screen = "Main"
  /\ last_key' = Some("Enter")
  /\ app'.current_screen = "MovieDetail"

\* C33: the key of the App never changes, and with no key a call of
\* fetch_movie_detail starts no lookup and opens no channel: it sets
\* movie_detail_error to "API key not set", leaves loading_movie_detail
\* false and leaves detail_receiver as it was.
C33_NoKeyNoLookup ==
  [][/\ app'.omdb_api_key = app.omdb_api_key
     /\ (OpensDetail /\ ~app.omdb_api_key.some) =>
          /\ app'.movie_detail_error = Some(ApiKeyNotSet)
          /\ ~app'.loading_movie_detail
          /\ app'.detail_receiver = app.detail_receiver
          /\ detail_task' = detail_task /\ detail_task' = <<>>
          /\ detail_chan' = detail_chan]_vars

\* Enter has opened the detail of a movie of a program started without a key
C33_Witness ==
  /\ ~app.omdb_api_key.some
  /\ last_key = Some("Enter") /\ app.current_screen = "MovieDetail"
  /\ app.movie_detail_error = Some(ApiKeyNotSet)
  /\ ~app.loading_movie_detail /\ ~app.detail_receiver.some
  /\ detail_task = <<>>

\* ------------------------------------------------------------------------
\* main.rs lines 80-122 and 193-205: the detail and the poster shown.  The
\* program is started with an OMDb key and a cache that lists two movies on
\* one day; the user moves in the list, opens the detail of a movie and
\* leaves it, and starts no run.
\* ------------------------------------------------------------------------
TwoMovies ==
  Serialize([n \in {T_A, T_b} |-> <<3 * MinutesPerDay + 840>>], StartTime - 60)

DetailKeys ==
  {"j", "k", "Enter", "Esc"}

InitDetail ==
  /\ now = StartTime
  /\ cache_file = Some(TwoMovies)
  /\ app = load_cache(NewApp(Some(<<"k">>)), cache_file)
  /\ call = NoCall
  /\ Quiet
  /\ pre_run = Snapshot(0)

NextDetail ==
  \/ RecvNothing
  \/ DetailComplete
  \/ DetailError
  \/ DetailNothing
  \/ PosterComplete
  \/ PosterError
  \/ PosterNothing
  \/ NoEvent
  \/ \E key \in DetailKeys : HandleKey(key)
  \/ DetailLookup
  \/ PosterDownload

SpecDetail ==
  InitDetail /\ [][NextDetail]_vars

\* C34: when the detail screen holds the detail of a movie and a poster,
\* the poster is the image downloaded from the poster URL of that detail.
C34_PosterOfShownMovie ==
  (app.selected_movie_detail.some /\ app.poster_protocol.some) =>
    app.poster_protocol.val.image_of = app.selected_movie_detail.val.poster

\* C35: the detail held is the detail of the title asked for last, and the
\* lookup error held is the error of the lookup of that title: the answer
\* of an earlier lookup is never installed once a later one was started.
C35_LatestRequestWins ==
  /\ app.selected_movie_detail.some =>
       asked.some /\ app.selected_movie_detail.val.title = asked.val
  /\ (app.movie_detail_error.some /\ app.omdb_api_key.some) =>
       asked.some /\ app.movie_detail_error.val = <<"Movie not found: ">> \o asked.val

\* the detail screen shows b, asked for after A, while the lookup of A is
\* still running
C35_Witness ==
  /\ app.current_screen = "MovieDetail"
  /\ asked = Some(T_b)
  /\ app.selected_movie_detail.some /\ app.selected_movie_detail.val.title = T_b
  /\ \E c \in DOMAIN detail_task : detail_task[c] = T_A

\* ------------------------------------------------------------------------
\* app.rs lines 190-269 and main.rs lines 57-67: the selection
\* ------------------------------------------------------------------------
\* C36: selected_date_index is the index of an available date, or 0 when
\* there is none; selected_movie_index is the index of a movie of the
\* filtered list, or 0 when the list is empty; list_state selects
\* selected_movie_index.
C36_SelectionValid ==
  /\ \/ app.selected_date_index < Len(app.available_dates)
     \/ app.available_dates = <<>> /\ app.selected_date_index = 0
  /\ \/ app.selected_movie_index < movie_count(app)
     \/ movie_count(app) = 0 /\ app.selected_movie_index = 0
  /\ app.list_state = Some(app.selected_movie_index)

\* the second movie of the second date is selected, after a run replaced
\* the Schedule of the cache
C36_Witness ==
  /\ app.selected_date_index = 1 /\ Len(app.available_dates) = 2
  /\ app.selected_movie_index = 1 /\ movie_count(app) = 2
  /\ recd # <<>> /\ Last(recd).type = "Complete"
  /\ pre_run.ritz_movie_times # EmptyMap
  /\ last_key = Some("j")

\* ------------------------------------------------------------------------
\* app.rs lines 113-136: the cache file against the Schedule in memory
\* ------------------------------------------------------------------------
\* the file holds the Schedule and the timestamp in memory, and a start that
\* reads it gets the same Schedule, timestamp and available dates
Persisted ==
  app.last_updated.some =>
    /\ cache_file = Some(Serialize(app.ritz_movie_times, app.last_updated.val))
    /\ LET restarted == load_cache(NewApp(app.omdb_api_key), cache_file)
       IN  /\ restarted.ritz_movie_times = app.ritz_movie_times
           /\ restarted.last_updated = app.last_updated
           /\ restarted.available_dates = app.available_dates

\* the step changes neither the file nor what of the App the file holds
SameCacheData ==
  /\ cache_file' = cache_file
  /\ app'.ritz_movie_times = app.ritz_movie_times
  /\ app'.last_updated = app.last_updated
  /\ app'.available_dates = app.available_dates

\* C37: when the program starts the file holds what is in memory, and every
\* step whose cache write, if it makes one, succeeds keeps it so: whenever
\* last_updated is Some the file holds the current Schedule and timestamp.
C37_CacheHoldsMemory ==
  /\ Persisted
  /\ [][\/ SameCacheData
        \/ (Persisted /\ (last_save'.called => last_save'.ok)) => Persisted']_vars

\* a program started without a cache has written the Schedule of a run
C37_Witness ==
  /\ ~pre_run.cache_file.some
  /\ last_save.called /\ last_save.ok
  /\ app.last_updated = Some(now)
  /\ app.available_dates # <<>>
  /\ cache_file = Some(Serialize(app.ritz_movie_times, now))

\* ------------------------------------------------------------------------
\* ritz.rs lines 146-191 and main.rs lines 57-67: a root page without a day
\* ------------------------------------------------------------------------
\* the discovery of the latest run fetched the root page and found no label
NoLabelFound ==
  /\ net # <<>> /\ net[1].kind = "root" /\ net[1].result.ok
  /\ LabelsFound = <<>>

\* C38: a run whose discovery found no label requests no day page and sends
\* nothing but Complete with the empty Schedule; the step that receives a
\* Complete with the empty Schedule leaves the Schedule and available_dates
\* empty, sets last_updated to the time of the step and has save_cache write
\* the empty Schedule with that time, which replaces the file when the
\* write succeeds.
C38_EmptyDiscoveryCompletes ==
  /\ [](NoLabelFound =>
          /\ Len(net) = 1
          /\ sent \in {<<>>, <<Complete(EmptyMap)>>}
          /\ run_end \in {"running", "complete"}
          /\ run_end = "complete" <=> sent # <<>>)
  /\ [][(Receives("Complete") /\ Last(recd').movie_times = EmptyMap) =>
          /\ app'.ritz_movie_times = EmptyMap
          /\ app'.available_dates = <<>>
          /\ app'.last_updated = Some(now)
          /\ last_save'.called
          /\ last_save'.movie_times = EmptyMap
          /\ last_save'.last_updated = now
          /\ last_save'.ok => cache_file' = Some(Serialize(EmptyMap, now))]_vars

\* the empty Schedule of a run that found no label has replaced the
\* Schedule of the cache, in memory and in the file
C38_Witness ==
  /\ NoLabelFound /\ run_end = "complete"
  /\ recd = <<Complete(EmptyMap)>>
  /\ pre_run.ritz_movie_times # EmptyMap
  /\ pre_run.cache_file.some /\ pre_run.cache_file.val.valid
  /\ app.ritz_movie_times = EmptyMap /\ app.available_dates = <<>>
  /\ app.last_updated = Some(now)
  /\ last_save.called /\ last_save.ok
  /\ cache_file = Some(Serialize(EmptyMap, now))

====
